---------------------------- MODULE Spec2Model ----------------------------
(***************************************************************************)
(* Model of jetbrains-proxy-mcp-server's core:                             *)
(*                                                                         *)
(*   - the retry/deadline executor, utils.get / utils.execute              *)
(*     (specification SpecRetry): one run of the executor against a        *)
(*     clock, with the callable, the attempt hook and the sleep as the     *)
(*     environment;                                                        *)
(*   - the upstream session supervisor, JetbrainsMCPServerProxy            *)
(*     (specification Spec): concurrent coroutines on the proxy's event    *)
(*     loop calling start, stop, restart, list_tools and call_tool;        *)
(*   - the tool dispatcher, list_tools' catalogue filter and call_tool's   *)
(*     choice of handler (specification SpecTools): one caller, a          *)
(*     started supervisor.                                                 *)
(*   - the path translator, paths.convert_path (specification SpecPaths):  *)
(*     paths are sequences of characters;                                  *)
(*   - the per-tool handlers' rewriting of request arguments and response  *)
(*     paths (specification SpecHandlers).                                 *)
(*                                                                         *)
(* Time is counted in ticks of 0.1 s, the smallest quantity the executor   *)
(* clamps to (max(0.1, retryer_initial_backoff)).                          *)
(***************************************************************************)
EXTENDS Integers, Sequences, FiniteSets, TLC

VARIABLES
    \* ---- retry executor (utils.get) ----
    p,          \* the arguments of the call: the retryer_* parameters, the kind of callable and hook
    rpc,        \* position of the executor in get's loop
    now,        \* time.monotonic()
    deadline,   \* get's local `deadline`
    attempt,    \* get's loop variable
    backoff,    \* get's local `backoff`
    last_err,   \* get's local `last_err`
    rem,        \* get's local `remaining`, as last computed (0 before the first computation)
    calls,      \* errors/results of the invocations of func so far, one entry per invocation
    hooks,      \* the AttemptHookArgs of the hook invocations so far
    sleeps,     \* the arguments of the asyncio.sleep calls so far
    outcome,    \* how the call ended: returned a value or raised an error
    \* ---- supervisor (JetbrainsMCPServerProxy) ----
    status,     \* self.status: the SS value
    server,     \* self.server: "None" or the MCPServer holder
    transports, \* upstream transport contexts entered and not yet closed
    sessions,   \* upstream sessions entered and not yet closed
    running,    \* the coroutine that holds the event loop between two suspensions, 0 when none
    op,         \* per coroutine: the public method it is running
    pc,         \* per coroutine: where it is
    ret,        \* per coroutine: where its current _start/_stop call returns to
    result,     \* per coroutine: how its latest _start/_stop call ended
    late,       \* per coroutine: the deadline of its public call has passed
    loc,        \* per coroutine: _do_start's locals transport_context and session
    tries,      \* per coroutine: `attempt` of the executor running _do_start
    rpcTries,   \* per coroutine: `attempt` of the executor running the RPC
    rpcErr,     \* per coroutine: `last_err` of the executor running the RPC
    \* ---- tool dispatcher (list_tools' filter, call_tool's handlers) ----
    properties, \* self.properties: timeout, in ticks
    catalogue,  \* the names of result.tools as the upstream returns them, in its order
    tcall,      \* the public call in progress and its arguments
    tpc,        \* position of the call
    tattempt,   \* `attempt` of the executor running the handler
    tbackoff,   \* `backoff` of that executor
    trem,       \* deadline - time.monotonic() of the call
    terr,       \* `last_err` of that executor
    tresult,    \* what the call returned or raised
    invoked,    \* names passed to self.server.session.call_tool during the call
    restarts,   \* restarts made by the attempt hook during the call
    \* ---- path translator (paths.convert_path) ----
    path,       \* convert_path's argument `path`
    from_type,  \* its argument `from_type`
    to_type,    \* its argument `to_type`
    ppc,        \* which conversions have been made
    converted,  \* convert_path(path, from_type, to_type)
    again,      \* convert_path of `converted`: back to from_type, or from to_type to itself
    \* ---- per-tool handlers (_do_<tool>) ----
    hcall,      \* the handler's call: tool, arguments, client and server path types
    hpc,        \* position of the handler
    forwarded,  \* the arguments passed to _do_call_tool
    response,   \* the upstream's CallToolResult: isError and the paths of its content blocks
    returned    \* the CallToolResult the handler returns

rvars == <<p, rpc, now, deadline, attempt, backoff, last_err, rem, calls, hooks, sleeps, outcome>>

svars == <<status, server, transports, sessions, running, op, pc, ret, result, late, loc,
           tries, rpcTries, rpcErr>>

tvars == <<properties, catalogue, tcall, tpc, tattempt, tbackoff, trem, terr, tresult,
           invoked, restarts>>

pvars == <<path, from_type, to_type, ppc, converted, again>>

hvars == <<hcall, hpc, forwarded, response, returned>>

vars == <<rvars, svars, tvars, pvars, hvars>>

Min(a, b) == IF a <= b THEN a ELSE b
Max(a, b) == IF a >= b THEN a ELSE b

RECURSIVE Pow(_, _)
Pow(b, e) == IF e = 0 THEN 1 ELSE b * Pow(b, e - 1)

None == [kind |-> "None"]

\* The dispatcher with no call in progress.
ToolsIdle ==
    /\ properties = None /\ catalogue = <<>> /\ tcall = None /\ tpc = "idle"
    /\ tattempt = 0 /\ tbackoff = 0 /\ trem = 0 /\ terr = "None" /\ tresult = None
    /\ invoked = <<>> /\ restarts = 0

\* No conversion under way.
PathsIdle ==
    /\ path = <<>> /\ from_type = "" /\ to_type = "" /\ ppc = "idle"
    /\ converted = <<>> /\ again = <<>>

\* No handler running.
HandlersIdle ==
    /\ hcall = None /\ hpc = "idle" /\ forwarded = None /\ response = None
    /\ returned = None


(***************************************************************************)
(*                  THE RETRY EXECUTOR: utils.get / utils.execute          *)
(***************************************************************************)

\* Largest retryer_max_attempts the calls are drawn from.
MaxAttempts == 3

\* utils.py:265, max(0.1, retryer_initial_backoff): 0.1 s is one tick.
MinInitialBackoff == 1
\* utils.py:266, max(1.0, retryer_max_backoff): 1.0 s is ten ticks.
MinMaxBackoff == 10
\* utils.py:267, max(1.0, retryer_backoff_multiplier).
MinMultiplier == 1
\* utils.py:264, max(1, retryer_max_attempts).
MinAttempts == 1

Entries == {"get", "execute"}
HookKinds == {"none", "sync", "async"}
\* Error kinds the callable raises; TimeoutError is what get and asyncio.wait_for raise.
FuncErrors == {"ValueError", "RuntimeError"}
AllErrors == FuncErrors \cup {"TimeoutError", "HookError"}
\* retryer_exceptions: the default (BaseException,) or (ValueError,) as in the tests.
ExceptionSets == {AllErrors, {"ValueError"}}
\* Inputs in ticks: 0 is below every clamp, 5 = 0.5 s, 10 = 1.0 s, 20 = 2.0 s.
InitialBackoffs == {0, 5, 20}
MaxBackoffs == {5, 10}
Multipliers == {0, 3}
Timeouts == {0, 12, 60}
\* How long one run of the callable, or of the hook, takes.
Durations == {0, 8}

Params ==
    [entry : Entries,
     func_async : BOOLEAN,
     hook : HookKinds,
     retryer_timeout : Timeouts,
     retryer_max_attempts : 0..MaxAttempts,
     retryer_initial_backoff : InitialBackoffs,
     retryer_max_backoff : MaxBackoffs,
     retryer_backoff_multiplier : Multipliers,
     retryer_exceptions : ExceptionSets]

\* get's re-bound parameters (utils.py:264-267).
max_attempts == Max(MinAttempts, p.retryer_max_attempts)
initial_backoff == Max(MinInitialBackoff, p.retryer_initial_backoff)
max_backoff == Max(MinMaxBackoff, p.retryer_max_backoff)
multiplier == Max(MinMultiplier, p.retryer_backoff_multiplier)

\* deadline - time.monotonic(), the value get assigns to `remaining`
\* (utils.py:277, 296, 310).
remaining == deadline - now

Err(kind, src, at) == [kind |-> kind, src |-> src, at |-> at]
Returned(v) == [kind |-> "returned", value |-> v]
Raised(e) == [kind |-> "raised", err |-> e]

\* `except retryer_exceptions as e` (utils.py:284) against `except BaseException` (286).
IsRetryable_AllRetried(e) == TRUE
IsRetryable(e) == e.kind \in p.retryer_exceptions

\* `if attempt >= retryer_max_attempts` (utils.py:292).
Exhausted_OffByOne == attempt > max_attempts
Exhausted == attempt >= max_attempts

\* backoff = min(retryer_max_backoff, backoff * multiplier) (utils.py:321).
NextBackoff_Uncapped(b) == b * multiplier
NextBackoff(b) == Min(max_backoff, b * multiplier)

\* What get hands back: get returns the callable's value, execute awaits get and
\* returns nothing (utils.py:283, 362-373).
ReturnValue_KeepsValue(v) == v
ReturnValue(v) == IF p.entry = "execute" THEN "None" ELSE v

RetryIdle ==
    /\ p = None /\ rpc = "idle" /\ now = 0 /\ deadline = 0 /\ attempt = 0
    /\ backoff = 0 /\ last_err = None /\ rem = 0 /\ calls = <<>> /\ hooks = <<>>
    /\ sleeps = <<>> /\ outcome = None

\* utils.py:263-269: the state of get when it enters its loop.
RetryInit ==
    /\ p \in Params
    /\ rpc = "attempt"
    /\ now = 0
    /\ deadline = 0 + p.retryer_timeout
    /\ attempt = 1
    /\ backoff = initial_backoff
    /\ last_err = None
    /\ rem = 0
    /\ calls = <<>>
    /\ hooks = <<>>
    /\ sleeps = <<>>
    /\ outcome = None

\* The end of one attempt (utils.py:282-290): r is the callable's value or an error.
AttemptEnds(r, t) ==
    /\ now' = t
    /\ calls' = Append(calls, r)
    /\ IF r.kind = "value"
       THEN /\ outcome' = Returned(ReturnValue(r.value))
            /\ rpc' = "done"
            /\ UNCHANGED last_err
       ELSE IF IsRetryable(r)
       THEN /\ last_err' = r
            /\ rpc' = "failed"
            /\ UNCHANGED outcome
       ELSE /\ outcome' = Raised(r)
            /\ rpc' = "done"
            /\ UNCHANGED last_err
    /\ UNCHANGED <<p, deadline, attempt, backoff, hooks, sleeps>>

\* One attempt (utils.py:272-290). A sync callable runs to its end whatever the
\* deadline; a coroutine is awaited under asyncio.wait_for(remaining), and is not
\* awaited at all when nothing remains.
Attempt ==
    /\ rpc = "attempt"
    /\ rem' = IF p.func_async THEN remaining ELSE rem
    /\ \E d \in Durations, res \in {"ok"} \cup FuncErrors :
        LET r == IF res = "ok" THEN [kind |-> "value", value |-> "v", at |-> attempt]
                 ELSE Err(res, "func", attempt)
        IN  IF ~ p.func_async
            THEN AttemptEnds(r, now + d)
            ELSE IF remaining <= 0
            THEN AttemptEnds(Err("TimeoutError", "get", attempt), now)
            ELSE \/ d <= remaining /\ AttemptEnds(r, now + d)
                 \/ d >= remaining /\ AttemptEnds(Err("TimeoutError", "wait_for", attempt), deadline)
    /\ UNCHANGED <<svars, tvars, pvars, hvars>>

\* get without its lines 305-310: the hook is never called.
Failed_SkipsHook ==
    /\ rpc = "failed"
    /\ rem' = IF Exhausted THEN rem ELSE remaining
    /\ IF Exhausted \/ remaining <= 0
       THEN /\ outcome' = Raised(last_err)
            /\ rpc' = "done"
       ELSE /\ rpc' = "sleep"
            /\ UNCHANGED outcome
    /\ UNCHANGED <<p, now, deadline, attempt, backoff, last_err, calls, hooks, sleeps>>
    /\ UNCHANGED <<svars, tvars, pvars, hvars>>

\* After a failed attempt (utils.py:292-303): give up, or go on to the hook and the sleep.
Failed ==
    /\ rpc = "failed"
    /\ rem' = IF Exhausted THEN rem ELSE remaining
    /\ IF Exhausted \/ remaining <= 0
       THEN /\ outcome' = Raised(last_err)
            /\ rpc' = "done"
       ELSE /\ rpc' = IF p.hook = "none" THEN "sleep" ELSE "hook"
            /\ UNCHANGED outcome
    /\ UNCHANGED <<p, now, deadline, attempt, backoff, last_err, calls, hooks, sleeps>>
    /\ UNCHANGED <<svars, tvars, pvars, hvars>>

\* The hook's record with the time that remains in place of the absolute deadline.
AttemptHookArgs_RemainingTime == [attempt |-> attempt, backoff |-> backoff, error |-> last_err, deadline |-> remaining]
\* AttemptHookArgs(attempt, backoff, error, deadline) as get builds it (utils.py:307).
AttemptHookArgs == [attempt |-> attempt, backoff |-> backoff, error |-> last_err, deadline |-> deadline]

\* get without its line 310: `remaining` is not recomputed after the hook.
HookEnds_StaleRemaining(ok, e, t) ==
    /\ now' = t
    /\ hooks' = Append(hooks, AttemptHookArgs)
    /\ IF ok
       THEN rpc' = "sleep" /\ UNCHANGED outcome
       ELSE rpc' = "done" /\ outcome' = Raised(e)
    /\ UNCHANGED <<p, deadline, attempt, backoff, last_err, rem, calls, sleeps>>

\* The hook returns or raises at time t (utils.py:305-310).
HookEnds(ok, e, t) ==
    /\ now' = t
    /\ hooks' = Append(hooks, AttemptHookArgs)
    /\ IF ok
       THEN rpc' = "sleep" /\ rem' = deadline - t /\ UNCHANGED outcome
       ELSE rpc' = "done" /\ outcome' = Raised(e) /\ UNCHANGED rem
    /\ UNCHANGED <<p, deadline, attempt, backoff, last_err, calls, sleeps>>

\* The hook awaited without asyncio.wait_for.
Hook_Unbounded ==
    /\ rpc = "hook"
    /\ \E d \in Durations, ok \in BOOLEAN :
        HookEnds(ok, Err("HookError", "hook", attempt), now + d)
    /\ UNCHANGED <<svars, tvars, pvars, hvars>>

\* The attempt hook (utils.py:305-310): called outside the try, so what it raises leaves
\* get; a coroutine hook is awaited under asyncio.wait_for(remaining).
Hook ==
    /\ rpc = "hook"
    /\ \E d \in Durations, ok \in BOOLEAN :
        IF p.hook = "sync"
        THEN HookEnds(ok, Err("HookError", "hook", attempt), now + d)
        ELSE \/ d <= rem /\ HookEnds(ok, Err("HookError", "hook", attempt), now + d)
             \/ d >= rem /\ HookEnds(FALSE, Err("TimeoutError", "hook_wait_for", attempt), now + rem)
    /\ UNCHANGED <<svars, tvars, pvars, hvars>>

\* The back-off sleep (utils.py:312-321).
Sleep ==
    /\ rpc = "sleep"
    /\ LET sleep_timeout == Min(backoff, rem)
       IN  IF sleep_timeout <= 0
           THEN /\ outcome' = Raised(last_err)
                /\ rpc' = "done"
                /\ UNCHANGED <<now, attempt, backoff, sleeps>>
           ELSE /\ sleeps' = Append(sleeps, sleep_timeout)
                /\ now' = now + sleep_timeout
                /\ backoff' = NextBackoff(backoff)
                /\ attempt' = attempt + 1
                /\ rpc' = "attempt"
                /\ UNCHANGED outcome
    /\ UNCHANGED <<p, deadline, last_err, rem, calls, hooks>>
    /\ UNCHANGED <<svars, tvars, pvars, hvars>>



(***************************************************************************)
(*          THE UPSTREAM SESSION SUPERVISOR: JetbrainsMCPServerProxy       *)
(*                                                                         *)
(* Coroutines run on the proxy's single event loop (server.py:26-40 posts  *)
(* every call there): one runs from one suspension to the next without     *)
(* interleaving.  `running` holds the coroutine that is between two        *)
(* suspensions; every await of upstream I/O, of the condition variable or  *)
(* of a sleep releases it.  asyncio.Lock is free whenever a coroutine is   *)
(* suspended (the only await inside `async with self._lock` is the         *)
(* condition's wait, which releases it), so a lock section is one          *)
(* uninterrupted run.  Deadlines are abstracted to `late`: the deadline of *)
(* the public call has passed, which may become true at any moment.        *)
(***************************************************************************)

\* Number of coroutines calling the proxy concurrently.
NumTasks == 2
\* properties.max_attempts of the model's configuration (JetbrainsMCPServer.py:32 defaults to 5).
SupMaxAttempts == 2

Tasks == 1..NumTasks

\* SS (JetbrainsMCPServerProxy.py:19-25).
SS == {"STOPPED", "STARTING", "STARTED", "STOPPING"}

Ops == {"start", "stop", "restart", "list_tools", "call_tool"}

NoLoc == [transport_context |-> "None", session |-> "None"]

SupIdle ==
    /\ status = "STOPPED"
    /\ server = "None"
    /\ transports = 0
    /\ sessions = 0
    /\ running = 0
    /\ op = [t \in Tasks |-> "idle"]
    /\ pc = [t \in Tasks |-> "idle"]
    /\ ret = [t \in Tasks |-> "none"]
    /\ result = [t \in Tasks |-> "none"]
    /\ late = [t \in Tasks |-> FALSE]
    /\ loc = [t \in Tasks |-> NoLoc]
    /\ tries = [t \in Tasks |-> 0]
    /\ rpcTries = [t \in Tasks |-> 0]
    /\ rpcErr = [t \in Tasks |-> "None"]

\* JetbrainsMCPServerProxy.py:57-58: server = None, status = SS.STOPPED.
Init == SupIdle /\ RetryIdle /\ ToolsIdle /\ PathsIdle /\ HandlersIdle

\* Coroutine t may take a step: the loop is free, or t holds it.
Sched(t) == running \in {0, t}

\* The coroutines blocked in self._status_changed.wait().
Waiting(t) == pc[t] \in {"start_wait", "stop_wait"}

\* self._status_changed.notify_all(): every waiter is made runnable and re-evaluates
\* its loop (the same code as on entry) when it is scheduled.  `me` goes to `next`.
notify_all_Lost(me, next) == [pc EXCEPT ![me] = next]
notify_all(me, next) ==
    [t \in Tasks |->
        IF t = me THEN next
        ELSE IF pc[t] = "start_wait" THEN "start_enter"
        ELSE IF pc[t] = "stop_wait" THEN "stop_enter"
        ELSE pc[t]]

\* `status in (SS.STARTING, SS.STOPPING)` (JetbrainsMCPServerProxy.py:135, 285).
Transitional(s) == s \in {"STARTING", "STOPPING"}

\* The calls made inside the executor's asyncio.wait_for (utils.py:280, 309): the
\* stop of an RPC attempt and the restart of the hook.  When the RPC's deadline
\* passes there, the coroutine is cancelled at its current await.
InWaitFor(t) == ret[t] \in {"attempt_stopped", "hook_mid", "hook_end"}

\* A coroutine is cancelled once by its wait_for: the stop that _do_call_tool runs in
\* the handler of that cancellation (ret "cancelled_stopped") is not cancelled again.

\* The stops whose deadline is their own stop_timeout (self.stop(), line 274), not
\* the caller's: they may time out whatever `late` says.
OwnStopDeadline(t) == ret[t] \in {"attempt_stopped", "cancelled_stopped", "final_stopped"}

\* What the state of a coroutine has beyond pc: kept by the steps that do not touch it.
UnchangedLocals == UNCHANGED <<op, ret, late, loc, tries, rpcTries, rpcErr>>
UnchangedUpstream == UNCHANGED <<transports, sessions>>

\* A public method is called: a new coroutine is posted to the loop.
Call(t) ==
    /\ Sched(t)
    /\ pc[t] = "idle"
    /\ \E o \in Ops :
        /\ op' = [op EXCEPT ![t] = o]
        /\ pc' = [pc EXCEPT ![t] =
                    CASE o = "start" -> "start_enter"
                      [] o \in {"stop", "restart"} -> "stop_enter"
                      [] OTHER -> "rpc_begin"]
        /\ ret' = [ret EXCEPT ![t] =
                    CASE o \in {"start", "stop"} -> "op_end"
                      [] o = "restart" -> "restart_mid"
                      [] OTHER -> "none"]
    /\ running' = t
    /\ UNCHANGED <<status, server, result, late, loc, tries, rpcTries, rpcErr>>
    /\ UnchangedUpstream
    /\ UNCHANGED <<rvars, tvars, pvars, hvars>>

\* time.monotonic() passes the deadline of t's public call.
DeadlinePasses(t) ==
    /\ running = 0
    /\ op[t] # "idle"
    /\ ~ late[t]
    /\ late' = [late EXCEPT ![t] = TRUE]
    /\ UNCHANGED <<status, server, running, op, pc, ret, result, loc, tries, rpcTries, rpcErr>>
    /\ UnchangedUpstream
    /\ UNCHANGED <<rvars, tvars, pvars, hvars>>

(*----------------------------- _start ------------------------------------*)

\* What _start does with the status it finds under the lock
\* (JetbrainsMCPServerProxy.py:130-153): return, wait, raise or begin.
StartDecision_NoWait(s) ==
    IF s = "STARTED" THEN "return" ELSE "begin"
StartDecision_Reconnects(s) ==
    IF Transitional(s) THEN "wait" ELSE "begin"
StartDecision(s) ==
    IF s = "STARTED" THEN "return"
    ELSE IF Transitional(s) THEN "wait"
    ELSE IF s # "STOPPED" THEN "raise"
    ELSE "begin"

\* _start's lock section, on entry and each time the waiter is woken
\* (JetbrainsMCPServerProxy.py:130-153).
StartEnter(t) ==
    /\ Sched(t)
    /\ pc[t] = "start_enter"
    /\ LET d == StartDecision(status) IN
       CASE d = "return" ->
              \* already started (lines 131-133, 146-148)
              /\ pc' = [pc EXCEPT ![t] = ret[t]]
              /\ result' = [result EXCEPT ![t] = "noop"]
              /\ running' = t
              /\ UNCHANGED <<status, tries>>
         [] d = "wait" ->
              \* lines 135-144: out of time, or wait for the next notify_all
              IF late[t]
              THEN /\ pc' = [pc EXCEPT ![t] = ret[t]]
                   /\ result' = [result EXCEPT ![t] = "TimeoutError"]
                   /\ running' = t
                   /\ UNCHANGED <<status, tries>>
              ELSE /\ pc' = [pc EXCEPT ![t] = "start_wait"]
                   /\ running' = 0
                   /\ UNCHANGED <<status, result, tries>>
         [] d = "raise" ->
              \* lines 150-151
              /\ pc' = [pc EXCEPT ![t] = ret[t]]
              /\ result' = [result EXCEPT ![t] = "RuntimeError"]
              /\ running' = t
              /\ UNCHANGED <<status, tries>>
         [] OTHER ->
              \* line 153: STARTING, without a notify
              /\ status' = "STARTING"
              /\ pc' = [pc EXCEPT ![t] = "start_begin"]
              /\ running' = t
              /\ UNCHANGED <<result, tries>>
    /\ UNCHANGED <<server, op, ret, late, loc, rpcTries, rpcErr>>
    /\ UnchangedUpstream
    /\ UNCHANGED <<rvars, tvars, pvars, hvars>>

\* _start after it set STARTING (lines 155-170): with no time left back to STOPPED
\* and a timeout, else the executor runs _do_start.
StartBegin(t) ==
    /\ Sched(t)
    /\ pc[t] = "start_begin"
    /\ IF late[t]
       THEN /\ status' = "STOPPED"
            /\ pc' = notify_all(t, ret[t])
            /\ result' = [result EXCEPT ![t] = "TimeoutError"]
            /\ running' = t
            /\ UNCHANGED tries
       ELSE /\ pc' = [pc EXCEPT ![t] = "connect"]
            /\ tries' = [tries EXCEPT ![t] = 1]
            /\ running' = 0
            /\ UNCHANGED <<status, result>>
    /\ UNCHANGED <<server, op, ret, late, loc, rpcTries, rpcErr>>
    /\ UnchangedUpstream
    /\ UNCHANGED <<rvars, tvars, pvars, hvars>>

\* asyncio.wait_for(self._status_changed.wait(), remaining) times out, or the
\* coroutine is cancelled while waiting: _start raises (lines 140-144).
StartWaitTimeout(t) ==
    /\ Sched(t)
    /\ pc[t] = "start_wait"
    /\ late[t]
    /\ pc' = [pc EXCEPT ![t] = ret[t]]
    /\ result' = [result EXCEPT ![t] = "TimeoutError"]
    /\ running' = t
    /\ UNCHANGED <<status, server>>
    /\ UnchangedLocals
    /\ UnchangedUpstream
    /\ UNCHANGED <<rvars, tvars, pvars, hvars>>

\* _do_start, `await transport_context.__aenter__()` (lines 195-201).
Connect(t) ==
    /\ Sched(t)
    /\ pc[t] = "connect"
    /\ \E ok \in BOOLEAN :
        IF ok
        THEN /\ transports' = transports + 1
             /\ loc' = [loc EXCEPT ![t] = [transport_context |-> "open", session |-> "None"]]
             /\ pc' = [pc EXCEPT ![t] = "init"]
        ELSE /\ loc' = [loc EXCEPT ![t] = [transport_context |-> "new", session |-> "None"]]
             /\ pc' = [pc EXCEPT ![t] = "cleanup"]
             /\ UNCHANGED transports
    /\ running' = 0
    /\ UNCHANGED <<status, server, sessions, op, ret, result, late, tries, rpcTries, rpcErr>>
    /\ UNCHANGED <<rvars, tvars, pvars, hvars>>

\* _do_start, session.__aenter__() and session.initialize() (lines 205-209): on
\* success the (transport_context, session) pair is stored in self.server.
InitSession(t) ==
    /\ Sched(t)
    /\ pc[t] = "init"
    /\ \E how \in {"ok", "enter_failed", "initialize_failed"} :
        /\ sessions' = IF how = "enter_failed" THEN sessions ELSE sessions + 1
        /\ loc' = [loc EXCEPT ![t].session = IF how = "enter_failed" THEN "new" ELSE "open"]
        /\ IF how = "ok"
           THEN /\ server' = "MCPServer"
                /\ pc' = [pc EXCEPT ![t] = "start_finish"]
           ELSE /\ pc' = [pc EXCEPT ![t] = "cleanup"]
                /\ UNCHANGED server
    /\ running' = 0
    /\ UNCHANGED <<status, transports, op, ret, result, late, tries, rpcTries, rpcErr>>
    /\ UNCHANGED <<rvars, tvars, pvars, hvars>>

\* _do_start's except without the close of the session.
Cleanup_Leaks(t) ==
    /\ Sched(t)
    /\ pc[t] = "cleanup"
    /\ transports' = IF loc[t].transport_context = "open" THEN transports - 1 ELSE transports
    /\ loc' = [loc EXCEPT ![t] = NoLoc]
    /\ pc' = [pc EXCEPT ![t] = "start_retry"]
    /\ running' = 0
    /\ UNCHANGED <<status, server, sessions, op, ret, result, late, tries, rpcTries, rpcErr>>
    /\ UNCHANGED <<rvars, tvars, pvars, hvars>>

\* _do_start's except (lines 216-221): _do_stop0 closes the session, then the
\* transport context, whichever of the two locals is set; errors are swallowed.
Cleanup(t) ==
    /\ Sched(t)
    /\ pc[t] = "cleanup"
    /\ sessions' = IF loc[t].session = "open" THEN sessions - 1 ELSE sessions
    /\ transports' = IF loc[t].transport_context = "open" THEN transports - 1 ELSE transports
    /\ loc' = [loc EXCEPT ![t] = NoLoc]
    /\ pc' = [pc EXCEPT ![t] = "start_retry"]
    /\ running' = 0
    /\ UNCHANGED <<status, server, op, ret, result, late, tries, rpcTries, rpcErr>>
    /\ UNCHANGED <<rvars, tvars, pvars, hvars>>

\* The executor after a failed _do_start (utils.py:292-321, no hook): give up when
\* the attempts or the time are used up, else sleep and try again.  Giving up is
\* _start's except (JetbrainsMCPServerProxy.py:177-183).
StartGivesUp(t) == tries[t] >= SupMaxAttempts \/ late[t]

\* _start without its except clause (lines 177-183): giving up leaves STARTING.
StartRetry_LeavesStarting(t) ==
    /\ Sched(t)
    /\ pc[t] = "start_retry"
    /\ IF StartGivesUp(t)
       THEN /\ pc' = [pc EXCEPT ![t] = ret[t]]
            /\ result' = [result EXCEPT ![t] = "StartError"]
            /\ tries' = [tries EXCEPT ![t] = 0]
            /\ running' = t
            /\ UNCHANGED status
       ELSE /\ pc' = [pc EXCEPT ![t] = "connect"]
            /\ tries' = [tries EXCEPT ![t] = tries[t] + 1]
            /\ running' = 0
            /\ UNCHANGED <<status, result>>
    /\ UNCHANGED <<server, op, ret, late, loc, rpcTries, rpcErr>>
    /\ UnchangedUpstream
    /\ UNCHANGED <<rvars, tvars, pvars, hvars>>

StartRetry(t) ==
    /\ Sched(t)
    /\ pc[t] = "start_retry"
    /\ IF StartGivesUp(t)
       THEN /\ status' = "STOPPED"
            /\ pc' = notify_all(t, ret[t])
            /\ result' = [result EXCEPT ![t] = "StartError"]
            /\ tries' = [tries EXCEPT ![t] = 0]
            /\ running' = t
       ELSE /\ pc' = [pc EXCEPT ![t] = "connect"]
            /\ tries' = [tries EXCEPT ![t] = tries[t] + 1]
            /\ running' = 0
            /\ UNCHANGED <<status, result>>
    /\ UNCHANGED <<server, op, ret, late, loc, rpcTries, rpcErr>>
    /\ UnchangedUpstream
    /\ UNCHANGED <<rvars, tvars, pvars, hvars>>

\* _start's success without line 174: STARTED is set and no waiter is notified.
StartFinish_NoNotify(t) ==
    /\ Sched(t)
    /\ pc[t] = "start_finish"
    /\ status' = "STARTED"
    /\ pc' = [pc EXCEPT ![t] = ret[t]]
    /\ result' = [result EXCEPT ![t] = "ok"]
    /\ loc' = [loc EXCEPT ![t] = NoLoc]
    /\ tries' = [tries EXCEPT ![t] = 0]
    /\ running' = t
    /\ UNCHANGED <<server, op, ret, late, rpcTries, rpcErr>>
    /\ UnchangedUpstream
    /\ UNCHANGED <<rvars, tvars, pvars, hvars>>

\* execute returned: STARTED under the lock, notify_all (lines 172-175).
StartFinish(t) ==
    /\ Sched(t)
    /\ pc[t] = "start_finish"
    /\ status' = "STARTED"
    /\ pc' = notify_all(t, ret[t])
    /\ result' = [result EXCEPT ![t] = "ok"]
    /\ loc' = [loc EXCEPT ![t] = NoLoc]
    /\ tries' = [tries EXCEPT ![t] = 0]
    /\ running' = t
    /\ UNCHANGED <<server, op, ret, late, rpcTries, rpcErr>>
    /\ UnchangedUpstream
    /\ UNCHANGED <<rvars, tvars, pvars, hvars>>


(*----------------------------- _stop -------------------------------------*)

\* What _stop does with the status it finds under the lock
\* (JetbrainsMCPServerProxy.py:280-307).
StopDecision_NoWait(s) ==
    IF s = "STOPPED" THEN "return" ELSE "begin"
StopDecision_IgnoresStarting(s) ==
    IF s = "STOPPED" THEN "return"
    ELSE IF s = "STOPPING" THEN "wait"
    ELSE "begin"
StopDecision(s) ==
    IF s = "STOPPED" THEN "return"
    ELSE IF Transitional(s) THEN "wait"
    ELSE IF s # "STARTED" THEN "return"
    ELSE "begin"

\* `remaining <= 0` in _stop's wait loop (lines 286-290): the deadline is the
\* caller's, or the stop's own stop_timeout, which may have run out at any time.
StopOutOfTime(t, own) == IF OwnStopDeadline(t) THEN own ELSE late[t]

\* _stop's lock section, on entry and each time the waiter is woken (lines 280-318).
StopEnter(t) ==
    /\ Sched(t)
    /\ pc[t] = "stop_enter"
    /\ \E own \in BOOLEAN :
       LET d == StopDecision(status) IN
       CASE d = "return" ->
              /\ pc' = [pc EXCEPT ![t] = ret[t]]
              /\ result' = [result EXCEPT ![t] = "noop"]
              /\ running' = t
              /\ UNCHANGED <<status, server, loc>>
         [] d = "wait" ->
              IF StopOutOfTime(t, own)
              THEN /\ pc' = [pc EXCEPT ![t] = ret[t]]
                   /\ result' = [result EXCEPT ![t] = "timeout"]
                   /\ running' = t
                   /\ UNCHANGED <<status, server, loc>>
              ELSE /\ pc' = [pc EXCEPT ![t] = "stop_wait"]
                   /\ running' = 0
                   /\ UNCHANGED <<status, server, result, loc>>
         [] OTHER ->
              \* lines 307-318: STOPPING, notify_all; with no server object straight
              \* to the finally, else _do_stop0 on the pair held in self.server
              /\ status' = "STOPPING"
              /\ IF server = "None"
                 THEN /\ pc' = notify_all(t, "stop_finish")
                      /\ running' = t
                      /\ UNCHANGED loc
                 ELSE /\ pc' = notify_all(t, "close_session")
                      /\ loc' = [loc EXCEPT ![t] = [transport_context |-> "open", session |-> "open"]]
                      /\ running' = 0
              /\ UNCHANGED <<server, result>>
    /\ UNCHANGED <<op, ret, late, tries, rpcTries, rpcErr>>
    /\ UnchangedUpstream
    /\ UNCHANGED <<rvars, tvars, pvars, hvars>>

\* _stop with a timed-out wait handled as _start's except of lines 177-183 handles
\* a failed start: STOPPED is set and the waiters are notified.
StopWaitTimeout_SetsStopped(t) ==
    /\ Sched(t)
    /\ pc[t] = "stop_wait"
    /\ late[t] \/ OwnStopDeadline(t)
    /\ status' = "STOPPED"
    /\ pc' = notify_all(t, ret[t])
    /\ result' = [result EXCEPT ![t] = "timeout"]
    /\ running' = t
    /\ UNCHANGED server
    /\ UnchangedLocals
    /\ UnchangedUpstream
    /\ UNCHANGED <<rvars, tvars, pvars, hvars>>

\* asyncio.wait_for(self._status_changed.wait(), remaining) times out: _stop logs
\* and returns (lines 291-297).
StopWaitTimeout(t) ==
    /\ Sched(t)
    /\ pc[t] = "stop_wait"
    /\ late[t] \/ OwnStopDeadline(t)
    /\ pc' = [pc EXCEPT ![t] = ret[t]]
    /\ result' = [result EXCEPT ![t] = "timeout"]
    /\ running' = t
    /\ UNCHANGED <<status, server>>
    /\ UnchangedLocals
    /\ UnchangedUpstream
    /\ UNCHANGED <<rvars, tvars, pvars, hvars>>

\* The executor's wait_for around the attempt or the hook runs out while _stop
\* waits: the coroutine is cancelled, and `except TE` (line 293) does not catch
\* CancelledError, which leaves _stop.
StopWaitCancelled(t) ==
    /\ Sched(t)
    /\ pc[t] = "stop_wait"
    /\ InWaitFor(t)
    /\ late[t]
    /\ pc' = [pc EXCEPT ![t] = ret[t]]
    /\ result' = [result EXCEPT ![t] = "CancelledError"]
    /\ running' = t
    /\ UNCHANGED <<status, server>>
    /\ UnchangedLocals
    /\ UnchangedUpstream
    /\ UNCHANGED <<rvars, tvars, pvars, hvars>>

\* How a close of the session or of the transport context ends; _do_stop swallows
\* the error and the timeout alike (lines 351-369).
CloseOutcomes == {"closed", "close_failed", "close_timeout"}

\* _do_stop without the except clauses of lines 356-359: a session whose close
\* fails or times out ends _do_stop, and the transport context is not closed.
CloseSession_FailureEndsStop(t) ==
    /\ Sched(t)
    /\ pc[t] = "close_session"
    /\ \E how \in CloseOutcomes :
        /\ loc' = [loc EXCEPT ![t].session = how]
        /\ pc' = [pc EXCEPT ![t] = IF how = "closed" THEN "close_transport" ELSE "stop_finish"]
    /\ sessions' = sessions - 1
    /\ running' = 0
    /\ UNCHANGED <<status, server, transports, op, ret, result, late, tries, rpcTries, rpcErr>>
    /\ UNCHANGED <<rvars, tvars, pvars, hvars>>

\* _do_stop, session.__aexit__ under wait_for (lines 351-359).
CloseSession(t) ==
    /\ Sched(t)
    /\ pc[t] = "close_session"
    /\ \E how \in CloseOutcomes :
        loc' = [loc EXCEPT ![t].session = how]
    /\ sessions' = sessions - 1
    /\ pc' = [pc EXCEPT ![t] = "close_transport"]
    /\ running' = 0
    /\ UNCHANGED <<status, server, transports, op, ret, result, late, tries, rpcTries, rpcErr>>
    /\ UNCHANGED <<rvars, tvars, pvars, hvars>>

\* _do_stop, transport_context.__aexit__ under wait_for (lines 361-369).
CloseTransport(t) ==
    /\ Sched(t)
    /\ pc[t] = "close_transport"
    /\ \E how \in CloseOutcomes :
        loc' = [loc EXCEPT ![t].transport_context = how]
    /\ transports' = transports - 1
    /\ pc' = [pc EXCEPT ![t] = "stop_finish"]
    /\ running' = 0
    /\ UNCHANGED <<status, server, sessions, op, ret, result, late, tries, rpcTries, rpcErr>>
    /\ UNCHANGED <<rvars, tvars, pvars, hvars>>

\* A close ended in an error or a timeout.
CloseFailed(l) ==
    \/ l.session \in {"close_failed", "close_timeout"}
    \/ l.transport_context \in {"close_failed", "close_timeout"}

\* How _stop ends after its closes: every error and timeout of a close is caught
\* and logged (lines 319-320, 341-343, 356-359, 365-369), so _stop returns.
StopOutcome_Raises(l) == IF CloseFailed(l) THEN "RuntimeError" ELSE "stopped"
StopOutcome(l) == IF CloseFailed(l) THEN "stopped_close_failed" ELSE "stopped"

\* _stop's finally without line 322.
StopFinish_KeepsServer(t) ==
    /\ Sched(t)
    /\ pc[t] = "stop_finish"
    /\ status' = "STOPPED"
    /\ pc' = notify_all(t, ret[t])
    /\ result' = [result EXCEPT ![t] = StopOutcome(loc[t])]
    /\ loc' = [loc EXCEPT ![t] = NoLoc]
    /\ running' = t
    /\ UNCHANGED <<server, op, ret, late, tries, rpcTries, rpcErr>>
    /\ UnchangedUpstream
    /\ UNCHANGED <<rvars, tvars, pvars, hvars>>

\* _stop's finally (lines 321-326): clear self.server, STOPPED under the lock, notify_all.
StopFinish(t) ==
    /\ Sched(t)
    /\ pc[t] = "stop_finish"
    /\ server' = "None"
    /\ status' = "STOPPED"
    /\ pc' = notify_all(t, ret[t])
    /\ result' = [result EXCEPT ![t] = StopOutcome(loc[t])]
    /\ loc' = [loc EXCEPT ![t] = NoLoc]
    /\ running' = t
    /\ UNCHANGED <<op, ret, late, tries, rpcTries, rpcErr>>
    /\ UnchangedUpstream
    /\ UNCHANGED <<rvars, tvars, pvars, hvars>>

(*---------------------- the public calls and _restart --------------------*)

\* How a raising call ends, as against "ok", "noop", "timeout", "stopped", ...
Raises == {"TimeoutError", "RuntimeError", "StartError", "CancelledError",
           "ToolError408", "ToolError500", "ToolError500Cancelled"}

\* The public call returns or raises to its caller (server.py:40).
OpEnd(t) ==
    /\ Sched(t)
    /\ pc[t] = "op_end"
    /\ op' = [op EXCEPT ![t] = "idle"]
    /\ pc' = [pc EXCEPT ![t] = "idle"]
    /\ ret' = [ret EXCEPT ![t] = "none"]
    /\ late' = [late EXCEPT ![t] = FALSE]
    /\ rpcTries' = [rpcTries EXCEPT ![t] = 0]
    /\ rpcErr' = [rpcErr EXCEPT ![t] = "None"]
    /\ running' = 0
    /\ result' = [result EXCEPT ![t] = "none"]
    /\ UNCHANGED <<status, server, loc, tries>>
    /\ UnchangedUpstream
    /\ UNCHANGED <<rvars, tvars, pvars, hvars>>

\* _restart between its stop and its start (lines 239-246), called by restart()
\* and by the hook; in the hook whatever it raises is swallowed (lines 268-270).
RestartMid(t) ==
    /\ Sched(t)
    /\ pc[t] \in {"restart_mid", "hook_mid"}
    /\ LET hook == pc[t] = "hook_mid"
           after == IF hook THEN "rpc_sleep" ELSE "op_end"
       IN  IF result[t] = "CancelledError" \/ late[t]
           THEN \* _stop was cancelled, or lines 240-243: no time left to start
                /\ pc' = [pc EXCEPT ![t] = after]
                /\ result' = [result EXCEPT ![t] = IF hook THEN "none" ELSE "TimeoutError"]
                /\ ret' = [ret EXCEPT ![t] = IF hook THEN "none" ELSE ret[t]]
           ELSE /\ pc' = [pc EXCEPT ![t] = "start_enter"]
                /\ ret' = [ret EXCEPT ![t] = IF hook THEN "hook_end" ELSE "op_end"]
                /\ result' = [result EXCEPT ![t] = "none"]
    /\ running' = t
    /\ UNCHANGED <<status, server, op, late, loc, tries, rpcTries, rpcErr>>
    /\ UnchangedUpstream
    /\ UNCHANGED <<rvars, tvars, pvars, hvars>>

\* _restart_on_error without its `except BaseException` (lines 268-270): what
\* _restart raised leaves the hook and, through the executor, the call.
HookEnd_Propagates(t) ==
    /\ Sched(t)
    /\ pc[t] = "hook_end"
    /\ pc' = [pc EXCEPT ![t] = IF result[t] \in Raises THEN "op_end" ELSE "rpc_sleep"]
    /\ running' = t
    /\ result' = [result EXCEPT ![t] = IF result[t] \in Raises THEN result[t] ELSE "none"]
    /\ ret' = [ret EXCEPT ![t] = "none"]
    /\ UNCHANGED <<status, server, op, late, loc, tries, rpcTries, rpcErr>>
    /\ UnchangedUpstream
    /\ UNCHANGED <<rvars, tvars, pvars, hvars>>

\* _restart_on_error after its _restart (lines 266-270): back to the executor.
HookEnd(t) ==
    /\ Sched(t)
    /\ pc[t] = "hook_end"
    /\ pc' = [pc EXCEPT ![t] = "rpc_sleep"]
    /\ running' = t
    /\ result' = [result EXCEPT ![t] = "none"]
    /\ ret' = [ret EXCEPT ![t] = "none"]
    /\ UNCHANGED <<status, server, op, late, loc, tries, rpcTries, rpcErr>>
    /\ UnchangedUpstream
    /\ UNCHANGED <<rvars, tvars, pvars, hvars>>

(*----------------------- list_tools and call_tool ------------------------*)

\* list_tools stops the supervisor before it re-raises (lines 393-397); call_tool
\* has no such handler (lines 456-478).
RpcRaises(t) ==
    IF op[t] = "list_tools"
    THEN /\ pc' = [pc EXCEPT ![t] = "stop_enter"]
         /\ ret' = [ret EXCEPT ![t] = "final_stopped"]
         /\ UNCHANGED result
    ELSE /\ pc' = [pc EXCEPT ![t] = "op_end"]
         /\ result' = [result EXCEPT ![t] = rpcErr[t]]
         /\ UNCHANGED ret

\* _ensure_started (lines 223-230), first step of list_tools and call_tool.
RpcBegin(t) ==
    /\ Sched(t)
    /\ pc[t] = "rpc_begin"
    /\ IF status = "STARTED"
       THEN /\ pc' = [pc EXCEPT ![t] = "rpc_ensured"]
            /\ result' = [result EXCEPT ![t] = "noop"]
            /\ UNCHANGED ret
       ELSE /\ pc' = [pc EXCEPT ![t] = "start_enter"]
            /\ ret' = [ret EXCEPT ![t] = "rpc_ensured"]
            /\ UNCHANGED result
    /\ running' = t
    /\ UNCHANGED <<status, server, op, late, loc, tries, rpcTries, rpcErr>>
    /\ UnchangedUpstream
    /\ UNCHANGED <<rvars, tvars, pvars, hvars>>

\* After _ensure_started (lines 376-381, 445-450): what _start raised leaves the
\* call; with no time left it raises a timeout; else the executor starts.
RpcEnsured(t) ==
    /\ Sched(t)
    /\ pc[t] = "rpc_ensured"
    /\ IF result[t] \in Raises
       THEN /\ pc' = [pc EXCEPT ![t] = "op_end"]
            /\ UNCHANGED <<result, rpcTries>>
       ELSE IF late[t]
       THEN /\ pc' = [pc EXCEPT ![t] = "op_end"]
            /\ result' = [result EXCEPT ![t] = "TimeoutError"]
            /\ UNCHANGED rpcTries
       ELSE /\ pc' = [pc EXCEPT ![t] = "rpc_attempt"]
            /\ rpcTries' = [rpcTries EXCEPT ![t] = 1]
            /\ result' = [result EXCEPT ![t] = "none"]
    /\ running' = t
    /\ UNCHANGED <<status, server, op, ret, late, loc, tries, rpcErr>>
    /\ UnchangedUpstream
    /\ UNCHANGED <<rvars, tvars, pvars, hvars>>

\* One attempt up to its await (utils.py:274-280; _do_list_tools lines 403-408,
\* _do_call_tool lines 484-490).  self.server.session is read without the lock.
RpcAttempt(t) ==
    /\ Sched(t)
    /\ pc[t] = "rpc_attempt"
    /\ IF late[t]
       THEN \* utils.py:278-279: nothing remains, the coroutine is not awaited
            /\ rpcErr' = [rpcErr EXCEPT ![t] = "TimeoutError"]
            /\ pc' = [pc EXCEPT ![t] = "rpc_failed"]
            /\ running' = 0
            /\ UNCHANGED ret
       ELSE IF server = "None"
       THEN \* AttributeError on None.session, caught by `except BaseException`
            /\ rpcErr' = [rpcErr EXCEPT ![t] = "ToolError500"]
            /\ IF op[t] = "list_tools"
               THEN /\ pc' = [pc EXCEPT ![t] = "rpc_failed"]
                    /\ running' = 0
                    /\ UNCHANGED ret
               ELSE /\ pc' = [pc EXCEPT ![t] = "stop_enter"]
                    /\ ret' = [ret EXCEPT ![t] = "attempt_stopped"]
                    /\ running' = t
       ELSE /\ pc' = [pc EXCEPT ![t] = "rpc_wait"]
            /\ running' = 0
            /\ UNCHANGED <<ret, rpcErr>>
    /\ UNCHANGED <<status, server, op, result, late, loc, tries, rpcTries>>
    /\ UnchangedUpstream
    /\ UNCHANGED <<rvars, tvars, pvars, hvars>>

\* What the executor's wait_for (utils.py:280) raises after it cancelled the
\* attempt: the handler's `except BaseException` (lines 415-418, 495-499) turned
\* the CancelledError into a ToolError of code 500, and wait_for re-raises what
\* the cancelled task raised.
AfterCancel == {"ToolError500Cancelled"}

\* The code a raised error carries (ToolError.code); 0 for errors without one.
Code(e) ==
    CASE e = "ToolError408" -> 408
      [] e \in {"ToolError500", "ToolError500Cancelled"} -> 500
      [] OTHER -> 0

\* The upstream call ends (lines 408-418, 487-499): with a result; in a timeout
\* of the inner wait_for (list_tools stops the supervisor, call_tool does not); in
\* another error (call_tool stops the supervisor, list_tools does not); or, past the
\* deadline, cancelled by the executor's wait_for, which `except BaseException`
\* handles as an error.
RpcComplete(t) ==
    /\ Sched(t)
    /\ pc[t] = "rpc_wait"
    /\ \E how \in {"ok", "timeout", "error", "cancelled"}, e \in AfterCancel :
        /\ how = "cancelled" => late[t]
        /\ IF how = "ok"
           THEN /\ pc' = [pc EXCEPT ![t] = "op_end"]
                /\ result' = [result EXCEPT ![t] = "ok"]
                /\ running' = t
                /\ UNCHANGED <<ret, rpcErr>>
           ELSE /\ rpcErr' = [rpcErr EXCEPT ![t] = CASE how = "timeout" -> "ToolError408"
                                             [] how = "error" -> "ToolError500"
                                             [] OTHER -> e]
                /\ IF (op[t] = "list_tools") = (how = "timeout")
                   THEN /\ pc' = [pc EXCEPT ![t] = "stop_enter"]
                        /\ ret' = [ret EXCEPT ![t] =
                                    IF how = "cancelled" THEN "cancelled_stopped" ELSE "attempt_stopped"]
                        /\ running' = t
                   ELSE /\ pc' = [pc EXCEPT ![t] = "rpc_failed"]
                        /\ running' = 0
                        /\ UNCHANGED ret
                /\ UNCHANGED result
    /\ UNCHANGED <<status, server, op, late, loc, tries, rpcTries>>
    /\ UnchangedUpstream
    /\ UNCHANGED <<rvars, tvars, pvars, hvars>>

\* The attempt's self.stop() is over (lines 413-414, 498-499): the ToolError is
\* raised, or the cancellation that left _stop reaches the executor as a timeout.
AttemptStopped(t) ==
    /\ Sched(t)
    /\ pc[t] \in {"attempt_stopped", "cancelled_stopped"}
    /\ rpcErr' = [rpcErr EXCEPT ![t] = IF result[t] = "CancelledError" THEN "TimeoutError" ELSE rpcErr[t]]
    /\ pc' = [pc EXCEPT ![t] = "rpc_failed"]
    /\ running' = 0
    /\ result' = [result EXCEPT ![t] = "none"]
    /\ ret' = [ret EXCEPT ![t] = "none"]
    /\ UNCHANGED <<status, server, op, late, loc, tries, rpcTries>>
    /\ UnchangedUpstream
    /\ UNCHANGED <<rvars, tvars, pvars, hvars>>

\* `isinstance(args.error, (TimeoutError, TE))` and `args.error.code == 408`
\* (lines 250-257): the errors _restart_on_error does not restart for.
IsTimeoutError_Never(e) == FALSE
IsTimeoutError(e) == e \in {"TimeoutError", "ToolError408"}

\* The executor after a failed attempt, and the start of the hook
\* (utils.py:292-310; _restart_on_error lines 248-266).
RpcFailed(t) ==
    /\ Sched(t)
    /\ pc[t] = "rpc_failed"
    /\ IF rpcTries[t] >= SupMaxAttempts \/ late[t]
       THEN RpcRaises(t)
       ELSE IF IsTimeoutError(rpcErr[t])
       THEN /\ pc' = [pc EXCEPT ![t] = "rpc_sleep"]
            /\ UNCHANGED <<ret, result>>
       ELSE /\ pc' = [pc EXCEPT ![t] = "stop_enter"]
            /\ ret' = [ret EXCEPT ![t] = "hook_mid"]
            /\ UNCHANGED result
    /\ running' = t
    /\ UNCHANGED <<status, server, op, late, loc, tries, rpcTries, rpcErr>>
    /\ UnchangedUpstream
    /\ UNCHANGED <<rvars, tvars, pvars, hvars>>

\* list_tools' `await self.stop()` is over: re-raise (lines 396-397).
FinalStopped(t) ==
    /\ Sched(t)
    /\ pc[t] = "final_stopped"
    /\ pc' = [pc EXCEPT ![t] = "op_end"]
    /\ result' = [result EXCEPT ![t] = rpcErr[t]]
    /\ running' = t
    /\ UNCHANGED <<status, server, op, ret, late, loc, tries, rpcTries, rpcErr>>
    /\ UnchangedUpstream
    /\ UNCHANGED <<rvars, tvars, pvars, hvars>>

\* After the hook (utils.py:310-320): raise the last error when no time is left
\* to sleep, else sleep.
RpcSleep(t) ==
    /\ Sched(t)
    /\ pc[t] = "rpc_sleep"
    /\ IF late[t]
       THEN RpcRaises(t) /\ running' = t
       ELSE /\ pc' = [pc EXCEPT ![t] = "rpc_sleeping"]
            /\ running' = 0
            /\ UNCHANGED <<ret, result>>
    /\ UNCHANGED <<status, server, op, late, loc, tries, rpcTries, rpcErr>>
    /\ UnchangedUpstream
    /\ UNCHANGED <<rvars, tvars, pvars, hvars>>

\* asyncio.sleep returns: the next attempt (utils.py:320-321, 271).
RpcWake(t) ==
    /\ Sched(t)
    /\ pc[t] = "rpc_sleeping"
    /\ rpcTries' = [rpcTries EXCEPT ![t] = rpcTries[t] + 1]
    /\ pc' = [pc EXCEPT ![t] = "rpc_attempt"]
    /\ running' = t
    /\ UNCHANGED <<status, server, op, ret, result, late, loc, tries, rpcErr>>
    /\ UnchangedUpstream
    /\ UNCHANGED <<rvars, tvars, pvars, hvars>>

(***************************************************************************)
(*      THE TOOL DISPATCHER: _do_list_tools' filter and call_tool          *)
(***************************************************************************)

\* Longest catalogue the upstream answers with.
MaxCatalogue == 3

\* Tool names, in the ascending order of Python's str comparison: a tool the
\* upstream offers and the proxy does not support (commented out at line 41), a
\* supported tool with a specialised handler, a supported tool without one,
\* another supported tool with a specialised handler.
ToolNames == <<"create_new_file", "get_file_problems", "get_project_modules",
               "rename_refactoring">>

NameSet == {ToolNames[i] : i \in DOMAIN ToolNames}

\* Position of a name in the order `sort(key=lambda t: t.name)` sorts by.
Rank(n) == CHOOSE i \in DOMAIN ToolNames : ToolNames[i] = n

\* JetbrainsMCPServerProxy.supported_tools (lines 40-54), the allow-list.
supported_tools == {"get_file_problems", "get_project_modules", "rename_refactoring"}

\* The keys of self.tool_handlers (lines 77-88) among the tools of the model.
tool_handlers == {"get_all_open_file_paths", "get_file_problems", "rename_refactoring"}

\* The arguments each specialised handler checks before anything else
\* (lines 696-698, 1021-1025), the `required` of the tool's schema.
RequiredArgs(n) ==
    CASE n = "get_file_problems" -> {"filePath"}
      [] n = "rename_refactoring" -> {"pathInProject", "symbolName", "newName"}
      [] OTHER -> {}

\* The sets of argument names the calls are drawn from.
ArgSets == {{}, {"filePath"}, {"pathInProject", "symbolName"},
            {"pathInProject", "symbolName", "newName"}}

\* properties.timeout of the calls are drawn from: the default, 35.0 s
\* (JetbrainsMCPServer.py:25), and 60.0 s.
ToolTimeouts == {350, 600}

\* The defaults of JetbrainsMCPServer.py:31-34, in ticks.
ToolProperties ==
    {[timeout |-> t, max_attempts |-> 5, initial_backoff |-> 10, max_backoff |-> 600,
      backoff_multiplier |-> 3] : t \in ToolTimeouts}

\* How long an upstream invocation takes, and a restart by the hook.
UpstreamDelays == {0, 10}

Catalogues == UNION {[1..n -> NameSet] : n \in 0..MaxCatalogue}

\* list.sort(key=lambda t: t.name) (line 426): stable, ascending.
RECURSIVE InsertByName(_, _)
InsertByName(x, s) ==
    IF s = <<>> THEN <<x>>
    ELSE IF Rank(x) <= Rank(Head(s)) THEN <<x>> \o s
    ELSE <<Head(s)>> \o InsertByName(x, Tail(s))

RECURSIVE SortByName(_)
SortByName(s) == IF s = <<>> THEN <<>> ELSE InsertByName(Head(s), SortByName(Tail(s)))

Supported(n) == n \in supported_tools

\* The end of _do_list_tools (lines 419-426): when the catalogue holds a name
\* outside supported_tools, keep the supported ones and sort them; else return
\* the catalogue as it came.
FilterTools(tools) ==
    LET unsupported == {tools[i] : i \in DOMAIN tools} \ supported_tools
    IN  IF tools # <<>> /\ unsupported # {}
        THEN SortByName(SelectSeq(tools, Supported))
        ELSE tools

\* list_tools when the upstream answers (lines 371-431).
ListTools ==
    /\ tpc = "idle"
    /\ \E pr \in ToolProperties, c \in Catalogues :
        /\ properties' = pr
        /\ catalogue' = c
        /\ tresult' = [kind |-> "tools", tools |-> FilterTools(c)]
    /\ tcall' = [kind |-> "list_tools"]
    /\ tpc' = "done"
    /\ UNCHANGED <<tattempt, tbackoff, trem, terr, invoked, restarts>>
    /\ UNCHANGED <<rvars, svars, pvars, hvars>>

\* call_tool up to its executor (lines 433-478; utils.py:263-269): the handler
\* is self.tool_handlers.get(name), else _do_call_tool.
CallTool ==
    /\ tpc = "idle"
    /\ \E pr \in ToolProperties, n \in NameSet, a \in ArgSets :
        /\ properties' = pr
        /\ tcall' = [kind |-> "call_tool", name |-> n, arguments |-> a]
        /\ trem' = pr.timeout
        /\ tbackoff' = pr.initial_backoff
    /\ tattempt' = 1
    /\ terr' = "None"
    /\ tpc' = "attempt"
    /\ invoked' = <<>>
    /\ restarts' = 0
    /\ UNCHANGED <<catalogue, tresult>>
    /\ UNCHANGED <<rvars, svars, pvars, hvars>>

\* A specialised handler finds one of its required arguments missing.
MissingArgument ==
    /\ tcall.name \in tool_handlers
    /\ ~ (RequiredArgs(tcall.name) \subseteq tcall.arguments)

\* One attempt (utils.py:274-285): nothing remains, and the handler's coroutine
\* is not awaited; or the specialised handler raises code 400 (lines 696-698,
\* 1021-1025); or the handler reaches _do_call_tool (lines 484-499), which
\* invokes the tool on the upstream session under the name it was given.
ToolAttempt ==
    /\ tpc = "attempt"
    /\ IF trem <= 0
       THEN /\ terr' = "TimeoutError"
            /\ tpc' = "failed"
            /\ UNCHANGED <<trem, invoked, tresult>>
       ELSE IF MissingArgument
       THEN /\ terr' = "ToolError400"
            /\ tpc' = "failed"
            /\ UNCHANGED <<trem, invoked, tresult>>
       ELSE \E how \in {"ok", "timeout", "error"}, d \in UpstreamDelays :
            /\ d <= trem
            /\ invoked' = Append(invoked, tcall.name)
            /\ trem' = trem - d
            /\ IF how = "ok"
               THEN /\ tresult' = [kind |-> "returned"]
                    /\ tpc' = "done"
                    /\ UNCHANGED terr
               ELSE /\ terr' = IF how = "timeout" THEN "ToolError408" ELSE "ToolError500"
                    /\ tpc' = "failed"
                    /\ UNCHANGED tresult
    /\ UNCHANGED <<properties, catalogue, tcall, tattempt, tbackoff, restarts>>
    /\ UNCHANGED <<rvars, svars, pvars, hvars>>

\* After a failed attempt (utils.py:292-310): raise the last error when the
\* attempts or the time are used up; else the hook, which restarts the
\* supervisor unless the error is a timeout (lines 248-266).
ToolFailed ==
    /\ tpc = "failed"
    /\ IF tattempt >= properties.max_attempts \/ trem <= 0
       THEN /\ tresult' = [kind |-> "raised", error |-> terr]
            /\ tpc' = "done"
            /\ UNCHANGED <<trem, restarts>>
       ELSE /\ \E d \in UpstreamDelays :
                /\ d <= trem
                /\ IsTimeoutError(terr) => d = 0
                /\ trem' = trem - d
            /\ restarts' = IF IsTimeoutError(terr) THEN restarts ELSE restarts + 1
            /\ tpc' = "sleep"
            /\ UNCHANGED tresult
    /\ UNCHANGED <<properties, catalogue, tcall, tattempt, tbackoff, terr, invoked>>
    /\ UNCHANGED <<rvars, svars, pvars, hvars>>

\* The back-off (utils.py:312-321): sleep min(backoff, remaining), or raise the
\* last error when that is nothing.
ToolSleep ==
    /\ tpc = "sleep"
    /\ LET sleep_timeout == Min(tbackoff, trem)
       IN  IF sleep_timeout <= 0
           THEN /\ tresult' = [kind |-> "raised", error |-> terr]
                /\ tpc' = "done"
                /\ UNCHANGED <<trem, tbackoff, tattempt>>
           ELSE /\ trem' = trem - sleep_timeout
                /\ tbackoff' = Min(properties.max_backoff,
                                   tbackoff * properties.backoff_multiplier)
                /\ tattempt' = tattempt + 1
                /\ tpc' = "attempt"
                /\ UNCHANGED tresult
    /\ UNCHANGED <<properties, catalogue, tcall, terr, invoked, restarts>>
    /\ UNCHANGED <<rvars, svars, pvars, hvars>>

\* The call returns or raises to its caller (server.py:40-41).
ToolReturn ==
    /\ tpc = "done"
    /\ properties' = None /\ catalogue' = <<>> /\ tcall' = None /\ tpc' = "idle"
    /\ tattempt' = 0 /\ tbackoff' = 0 /\ trem' = 0 /\ terr' = "None" /\ tresult' = None
    /\ invoked' = <<>> /\ restarts' = 0
    /\ UNCHANGED <<rvars, svars, pvars, hvars>>

(***************************************************************************)
(*                THE PATH TRANSLATOR: paths.convert_path                  *)
(***************************************************************************)

\* A path is a sequence of one-character strings.  The letters of the paths:
\* [a-z] and [A-Z] of the regular expressions, cut down to these.
LowerLetters == {"d", "m", "n", "t", "x"}
UpperLetters == {"D", "X"}
Letters == LowerLetters \cup UpperLetters

\* The three path styles (paths.py:230, 243).
Styles == {"wsl", "windows_git_bash", "windows"}

\* str.lower() (paths.py:181, 186).
LowerChar(c) == CASE c = "D" -> "d" [] c = "X" -> "x" [] OTHER -> c

RECURSIVE lower(_)
lower(s) == IF s = <<>> THEN <<>> ELSE <<LowerChar(Head(s))>> \o lower(Tail(s))

\* str.strip() (paths.py:18): outer blanks removed.
RECURSIVE lstrip(_)
lstrip(s) == IF s # <<>> /\ Head(s) = " " THEN lstrip(Tail(s)) ELSE s

RECURSIVE rstrip(_)
rstrip(s) == IF s # <<>> /\ s[Len(s)] = " " THEN rstrip(SubSeq(s, 1, Len(s) - 1)) ELSE s

strip(s) == rstrip(lstrip(s))

\* replace('\\', '/') (paths.py:18).
RECURSIVE ForwardSlashes(_)
ForwardSlashes(s) ==
    IF s = <<>> THEN <<>>
    ELSE <<IF Head(s) = "\\" THEN "/" ELSE Head(s)>> \o ForwardSlashes(Tail(s))

\* while '//' in p: p = p.replace('//', '/') (paths.py:19-20): every run of
\* slashes becomes one slash.
RECURSIVE CollapseSlashes(_)
CollapseSlashes(s) ==
    IF Len(s) < 2 THEN s
    ELSE IF s[1] = "/" /\ s[2] = "/" THEN CollapseSlashes(Tail(s))
    ELSE <<s[1]>> \o CollapseSlashes(Tail(s))

\* paths.py:6-22.
normalize_path(a) == IF a = <<>> THEN a ELSE CollapseSlashes(ForwardSlashes(strip(a)))

\* Length of the run of characters of `set` that starts at index i of s.
RECURSIVE RunLen(_, _, _)
RunLen(s, i, set) == IF i <= Len(s) /\ s[i] \in set THEN 1 + RunLen(s, i + 1, set) ELSE 0

\* Index of the first c in s at or after i, 0 when there is none.
RECURSIVE IndexOf(_, _, _)
IndexOf(s, c, i) == IF i > Len(s) THEN 0 ELSE IF s[i] = c THEN i ELSE IndexOf(s, c, i + 1)

StartsWith(s, prefix) == Len(s) >= Len(prefix) /\ SubSeq(s, 1, Len(prefix)) = prefix

Mnt == <<"/", "m", "n", "t", "/">>

\* re.match(r'^/mnt/[a-z]+/', p) (paths.py:46, 132).
MatchesWsl(a) ==
    /\ StartsWith(a, Mnt)
    /\ LET k == RunLen(a, 6, LowerLetters) IN k >= 1 /\ 6 + k <= Len(a) /\ a[6 + k] = "/"

\* re.match(r'^/[a-z]+/', p) (paths.py:74).
MatchesGitBash(a) ==
    /\ StartsWith(a, <<"/">>)
    /\ LET k == RunLen(a, 2, LowerLetters) IN k >= 1 /\ 2 + k <= Len(a) /\ a[2 + k] = "/"

\* re.match(r'^[A-Za-z]+:', p) (paths.py:102, 135).
MatchesWindows(a) ==
    LET k == RunLen(a, 1, Letters) IN k >= 1 /\ k + 1 <= Len(a) /\ a[k + 1] = ":"

NoDrive(a) == [drive |-> <<>>, path |-> a]

\* paths.py:25-54: split('/', 3) gives '', 'mnt', the drive and the remainder.
parse_from_wsl_NoDrive(p_norm) == NoDrive(p_norm)
parse_from_wsl(p_norm) ==
    IF MatchesWsl(p_norm)
    THEN LET k == RunLen(p_norm, 6, LowerLetters)
         IN  [drive |-> SubSeq(p_norm, 6, 5 + k), path |-> SubSeq(p_norm, 6 + k, Len(p_norm))]
    ELSE NoDrive(p_norm)

\* paths.py:57-81: split('/', 2) gives '', the drive and the remainder.
parse_from_windows_git_bash(p_norm) ==
    IF MatchesGitBash(p_norm)
    THEN LET k == RunLen(p_norm, 2, LowerLetters)
         IN  [drive |-> SubSeq(p_norm, 2, 1 + k), path |-> SubSeq(p_norm, 2 + k, Len(p_norm))]
    ELSE NoDrive(p_norm)

\* paths.py:84-108: split('/', 1); the drive is what precedes the first slash
\* less its last character, the path is '/' and what follows that slash.
parse_from_windows(p_norm) ==
    IF MatchesWindows(p_norm)
    THEN LET i == IndexOf(p_norm, "/", 1)
         IN  IF i = 0
             THEN [drive |-> SubSeq(p_norm, 1, Len(p_norm) - 1), path |-> <<"/">>]
             ELSE [drive |-> SubSeq(p_norm, 1, i - 2), path |-> SubSeq(p_norm, i, Len(p_norm))]
    ELSE NoDrive(p_norm)

\* paths.py:111-138; "" stands for None.
detect_path_type(a) ==
    LET n == normalize_path(a)
    IN  IF n = <<>> THEN ""
        ELSE IF MatchesWsl(n) THEN "wsl"
        ELSE IF MatchesWindows(n) THEN "windows"
        ELSE ""

\* paths.py:141-163.
detect_drive_and_path(p_norm, from) ==
    CASE from = "wsl" -> parse_from_wsl(p_norm)
      [] from = "windows_git_bash" -> parse_from_windows_git_bash(p_norm)
      [] from = "windows" -> parse_from_windows(p_norm)
      [] OTHER -> NoDrive(p_norm)

\* paths.py:166-204.
build_converted_path_KeepsCase(drive, a, to, original) ==
    CASE to = "wsl" -> IF drive # <<>> THEN Mnt \o drive \o a ELSE a
      [] to = "windows_git_bash" -> IF drive # <<>> THEN <<"/">> \o drive \o a ELSE a
      [] to = "windows" ->
            IF drive # <<>> THEN drive \o <<":">> \o a
            ELSE IF ~ StartsWith(a, <<"/">>) THEN a
            ELSE original
      [] OTHER -> original

build_converted_path_NormalizedOriginal(drive, a, to, original) ==
    CASE to = "wsl" -> IF drive # <<>> THEN Mnt \o lower(drive) \o a ELSE a
      [] to = "windows_git_bash" -> IF drive # <<>> THEN <<"/">> \o lower(drive) \o a ELSE a
      [] to = "windows" -> IF drive # <<>> THEN drive \o <<":">> \o a ELSE a
      [] OTHER -> original

build_converted_path(drive, a, to, original) ==
    CASE to = "wsl" -> IF drive # <<>> THEN Mnt \o lower(drive) \o a ELSE a
      [] to = "windows_git_bash" -> IF drive # <<>> THEN <<"/">> \o lower(drive) \o a ELSE a
      [] to = "windows" ->
            IF drive # <<>> THEN drive \o <<":">> \o a
            ELSE IF ~ StartsWith(a, <<"/">>) THEN a
            ELSE original
      [] OTHER -> original

\* paths.py:228-230: the calls convert_path answers with its argument at once.
ShortCircuits(a, from, to) == a = <<>> \/ from = to \/ to \notin Styles

\* paths.py:243-250: the conversion once from_type is settled.
ConvertFrom(a, from, to) ==
    IF from \notin Styles THEN a
    ELSE LET p_norm == normalize_path(a)
             dp == detect_drive_and_path(p_norm, from)
         IN  build_converted_path(dp.drive, dp.path, to, a)

\* paths.py:207-250.
convert_path_TrustsFromType(a, from, to) ==
    IF ShortCircuits(a, from, to) THEN a
    ELSE IF detect_path_type(a) = to THEN a
    ELSE ConvertFrom(a, from, to)

convert_path_NormalizesSameType(a, from, to) ==
    IF ShortCircuits(a, from, to) THEN normalize_path(a)
    ELSE LET p_type == detect_path_type(a)
         IN  IF p_type # "" /\ p_type = to THEN a
             ELSE ConvertFrom(a, IF p_type # "" THEN p_type ELSE from, to)

convert_path(a, from, to) ==
    IF ShortCircuits(a, from, to) THEN a
    ELSE LET p_type == detect_path_type(a)
         IN  IF p_type # "" /\ p_type = to THEN a
             ELSE ConvertFrom(a, IF p_type # "" THEN p_type ELSE from, to)

\* The drives and the tails the canonical drive paths are made of.
LowerDrives == {<<"d">>, <<"m", "n", "t">>}
Drives == LowerDrives \cup {<<"D">>}
Tails == {<<>>,
          <<"t">>,
          <<"t", "/", "x">>,
          <<"t", "/", "/", "x">>,
          <<"t", "\\", "x">>,
          <<"t", " ">>,
          <<"d", "/", "t">>,
          <<"X">>}

\* The canonical drive path of a style: /mnt/d/t, /d/t, d:/t.
Canonical(style, drive, tail) ==
    CASE style = "wsl" -> Mnt \o drive \o <<"/">> \o tail
      [] style = "windows_git_bash" -> <<"/">> \o drive \o <<"/">> \o tail
      [] style = "windows" -> drive \o <<":", "/">> \o tail

\* Other paths convert_path is called with: relative, rooted without a drive,
\* blank, with backslashes, doubled slashes and outer blanks, a drive alone.
OtherPaths == {<<"t">>,
               <<"t", "/", "x">>,
               <<"/", "t">>,
               <<"/", "t", "/", "/", "x">>,
               <<" ">>,
               <<"\\", "t">>,
               <<" ", "d", ":", "/", "t">>,
               <<"d", ":">>,
               <<"d", ":", "t", "/", "x">>,
               <<"/", "m", "n", "t", "/", "d">>,
               <<"/", "m", "n", "t", "/", "X", "/", "t">>,
               <<"/", "d">>,
               <<"D", ":", "\\", "t">>,
               <<":", "/", "t">>}

Paths ==
    {Canonical(st, d, t) : st \in Styles, d \in Drives, t \in Tails} \cup OtherPaths

\* The values of from_type and to_type: the styles, None ("") and a name that
\* is no style.
StyleArgs == Styles \cup {"", "posix"}

\* convert_path is called.
PathsInit ==
    /\ path \in Paths
    /\ from_type \in StyleArgs
    /\ to_type \in StyleArgs
    /\ ppc = "input"
    /\ converted = <<>>
    /\ again = <<>>

\* convert_path(path, from_type, to_type) returns.
Convert ==
    /\ ppc = "input"
    /\ converted' = convert_path(path, from_type, to_type)
    /\ ppc' = "converted"
    /\ UNCHANGED <<path, from_type, to_type, again>>
    /\ UNCHANGED <<rvars, svars, tvars, hvars>>

\* The result is converted back: convert_path(converted, to_type, from_type).
ConvertBack ==
    /\ ppc = "converted"
    /\ again' = convert_path(converted, to_type, from_type)
    /\ ppc' = "back"
    /\ UNCHANGED <<path, from_type, to_type, converted>>
    /\ UNCHANGED <<rvars, svars, tvars, hvars>>

\* The result is converted from its own style to itself:
\* convert_path(converted, to_type, to_type).
ConvertAgain ==
    /\ ppc = "converted"
    /\ again' = convert_path(converted, to_type, to_type)
    /\ ppc' = "again"
    /\ UNCHANGED <<path, from_type, to_type, converted>>
    /\ UNCHANGED <<rvars, svars, tvars, hvars>>

\* The path is converted from the style detect_path_type finds in it:
\* convert_path(path, detect_path_type(path), to_type).
ConvertDetected ==
    /\ ppc = "converted"
    /\ detect_path_type(path) # ""
    /\ again' = convert_path(path, detect_path_type(path), to_type)
    /\ ppc' = "detected"
    /\ UNCHANGED <<path, from_type, to_type, converted>>
    /\ UNCHANGED <<rvars, svars, tvars, hvars>>

\* The result is converted once more with the same arguments, as a handler does
\* with the argument it has rewritten in place when its call is retried:
\* convert_path(converted, from_type, to_type).
ConvertRepeat ==
    /\ ppc = "converted"
    /\ again' = convert_path(converted, from_type, to_type)
    /\ ppc' = "repeated"
    /\ UNCHANGED <<path, from_type, to_type, converted>>
    /\ UNCHANGED <<rvars, svars, tvars, hvars>>

(***************************************************************************)
(*        THE PER-TOOL HANDLERS: request and response path rewriting       *)
(***************************************************************************)

\* Longest content of an upstream response.
MaxContent == 2

\* The tools the handlers are called for: a handler that rewrites the response
\* only, one that rewrites request and response, one that rewrites the request
\* only, and a tool without handler, which call_tool passes to _do_call_tool.
HandlerTools == tool_handlers \cup {"get_project_modules"}

HArgNames == {"filePath", "pathInProject"}

\* The values of the path arguments and of the path fields of the responses.
HPaths == {<<"/", "m", "n", "t", "/", "d", "/", "t">>, <<"D", ":", "\\", "t">>, <<" ">>}

\* The argument each handler rewrites before the upstream call (lines 704-707,
\* 1031-1035); "" when it rewrites none (lines 598-603; _do_call_tool).
RequestPathArg_Always(tool) == "filePath"
RequestPathArg(tool) ==
    CASE tool = "get_file_problems" -> "filePath"
      [] tool = "rename_refactoring" -> "pathInProject"
      [] OTHER -> ""

\* The handlers that rewrite paths of the response (lines 618-643, 723-742).
RewritesResponse(tool) == tool \in {"get_all_open_file_paths", "get_file_problems"}

\* `path and isinstance(path, str) and path.strip()` (lines 706, 626, 732).
HasPath(a) == a # <<>> /\ strip(a) # <<>>

\* The arguments a handler passes to _do_call_tool (lines 700-712, 1027-1040).
RewriteArguments(tool, arguments, client_path_type, server_path_type) ==
    LET k == RequestPathArg(tool)
    IN  IF client_path_type # server_path_type /\ k # "" /\ HasPath(arguments[k])
        THEN [arguments EXCEPT ![k] = convert_path(@, client_path_type, server_path_type)]
        ELSE arguments

\* A text block json.loads rejects (lines 623, 729).
NotJson == <<"{">>

\* The text blocks of the upstream's responses: the path of a JSON object, or
\* a text that is no JSON.
Blocks == HPaths \cup {NotJson}

\* The first block json.loads fails on; 0 when there is none.
FirstNotJson(content) ==
    IF \E i \in DOMAIN content : content[i] = NotJson
    THEN CHOOSE i \in DOMAIN content :
            content[i] = NotJson /\ \A j \in 1..(i - 1) : content[j] # NotJson
    ELSE 0

\* The blocks rewritten in place before the loop ends: all of them, or those
\* before the block json.loads failed on (lines 726-738).
RewriteBlocks(content, client_path_type, server_path_type) ==
    LET f == FirstNotJson(content)
    IN  [i \in DOMAIN content |->
            IF (f = 0 \/ i < f) /\ HasPath(content[i])
            THEN convert_path(content[i], server_path_type, client_path_type)
            ELSE content[i]]

\* What json.loads raises out of a handler.
RewriteError == [raised |-> "JSONDecodeError"]

\* The handlers whose rewriting loop stands in a try whose except logs (lines
\* 726-738); _do_get_all_open_file_paths has none (lines 621-640).
CatchesRewriteError(tool) == tool # "get_all_open_file_paths"

\* The response a handler returns (lines 614-645, 723-744): the upstream's, its
\* paths converted from the server's style to the client's when the styles
\* differ, isError is false and the content is not empty.
RewriteResponse_IgnoresIsError(tool, resp, client_path_type, server_path_type) ==
    IF ~ RewritesResponse(tool) \/ client_path_type = server_path_type \/ resp.content = <<>>
    THEN resp
    ELSE IF FirstNotJson(resp.content) # 0 /\ ~ CatchesRewriteError(tool)
    THEN RewriteError
    ELSE [resp EXCEPT !.content = RewriteBlocks(@, client_path_type, server_path_type)]

RewriteResponse(tool, resp, client_path_type, server_path_type) ==
    IF \/ ~ RewritesResponse(tool)
       \/ client_path_type = server_path_type
       \/ resp.isError
       \/ resp.content = <<>>
    THEN resp
    ELSE IF FirstNotJson(resp.content) # 0 /\ ~ CatchesRewriteError(tool)
    THEN RewriteError
    ELSE [resp EXCEPT !.content = RewriteBlocks(@, client_path_type, server_path_type)]

Responses ==
    [isError : BOOLEAN, content : UNION {[1..n -> Blocks] : n \in 0..MaxContent}]

\* call_tool hands the call to the tool's handler, or to _do_call_tool
\* (lines 452-478), and the handler reaches its upstream call.
HandlerCall ==
    /\ hpc = "idle"
    /\ \E tool \in HandlerTools, arguments \in [HArgNames -> HPaths],
          client \in Styles, srv \in Styles :
        /\ hcall' = [tool |-> tool, arguments |-> arguments,
                     client_path_type |-> client, server_path_type |-> srv]
        /\ forwarded' = RewriteArguments(tool, arguments, client, srv)
    /\ hpc' = "upstream"
    /\ UNCHANGED <<response, returned>>
    /\ UNCHANGED <<rvars, svars, tvars, pvars>>

\* The upstream answers (line 488).
Upstream ==
    /\ hpc = "upstream"
    /\ response' \in Responses
    /\ hpc' = "responded"
    /\ UNCHANGED <<hcall, forwarded, returned>>
    /\ UNCHANGED <<rvars, svars, tvars, pvars>>

\* The handler returns (lines 614-645, 723-744, 1051, 503).
HandlerReturn ==
    /\ hpc = "responded"
    /\ returned' = RewriteResponse(hcall.tool, response, hcall.client_path_type,
                                   hcall.server_path_type)
    /\ hpc' = "returned"
    /\ UNCHANGED <<hcall, forwarded, response>>
    /\ UNCHANGED <<rvars, svars, tvars, pvars>>

\* The result reaches the caller (server.py:56).
HandlerDone ==
    /\ hpc = "returned"
    /\ hcall' = None /\ hpc' = "idle" /\ forwarded' = None /\ response' = None
    /\ returned' = None
    /\ UNCHANGED <<rvars, svars, tvars, pvars>>

(*--------------------------- specifications ------------------------------*)

Next ==
    \E t \in Tasks :
        \/ Call(t) \/ DeadlinePasses(t) \/ OpEnd(t)
        \/ StartEnter(t) \/ StartBegin(t) \/ StartWaitTimeout(t) \/ Connect(t) \/ InitSession(t)
        \/ Cleanup(t) \/ StartRetry(t) \/ StartFinish(t)
        \/ StopEnter(t) \/ StopWaitTimeout(t) \/ StopWaitCancelled(t)
        \/ CloseSession(t) \/ CloseTransport(t) \/ StopFinish(t)
        \/ RestartMid(t) \/ HookEnd(t)
        \/ RpcBegin(t) \/ RpcEnsured(t) \/ RpcAttempt(t) \/ RpcComplete(t)
        \/ AttemptStopped(t) \/ RpcFailed(t) \/ FinalStopped(t) \/ RpcSleep(t) \/ RpcWake(t)

\* The supervisor under concurrent callers.
Spec == Init /\ [][Next]_vars

\* A step of coroutine t once it has been posted: everything but the arrival of a
\* call and the passing of time.
Step(t) ==
    \/ OpEnd(t)
    \/ StartEnter(t) \/ StartBegin(t) \/ StartWaitTimeout(t) \/ Connect(t) \/ InitSession(t)
    \/ Cleanup(t) \/ StartRetry(t) \/ StartFinish(t)
    \/ StopEnter(t) \/ StopWaitTimeout(t) \/ StopWaitCancelled(t)
    \/ CloseSession(t) \/ CloseTransport(t) \/ StopFinish(t)
    \/ RestartMid(t) \/ HookEnd(t)
    \/ RpcBegin(t) \/ RpcEnsured(t) \/ RpcAttempt(t) \/ RpcComplete(t)
    \/ AttemptStopped(t) \/ RpcFailed(t) \/ FinalStopped(t) \/ RpcSleep(t) \/ RpcWake(t)

\* The event loop runs its ready queue in order (server.py:26-40 posts every call to
\* one loop), so a coroutine that is ready again and again is run; and every
\* upstream connect, close, RPC and sleep comes to an end.  Calls need not arrive
\* and deadlines need not pass.
Fairness == \A t \in Tasks : SF_vars(Step(t))

\* The supervisor under concurrent callers and a fair event loop.
SpecLive == Init /\ [][Next]_vars /\ Fairness

NextRetry == Attempt \/ Failed \/ Hook \/ Sleep

\* get is entered with some arguments; the supervisor plays no part.
InitRetry ==
    /\ RetryInit
    /\ SupIdle
    /\ ToolsIdle
    /\ PathsIdle
    /\ HandlersIdle

\* One call of get or execute.
SpecRetry == InitRetry /\ [][NextRetry]_vars

NextTools == ListTools \/ CallTool \/ ToolAttempt \/ ToolFailed \/ ToolSleep \/ ToolReturn

\* One caller of list_tools and call_tool on a started supervisor.
SpecTools == Init /\ [][NextTools]_vars

NextPaths == Convert \/ ConvertBack \/ ConvertAgain \/ ConvertDetected \/ ConvertRepeat

\* convert_path is called with some path and styles; nothing else runs.
InitPaths ==
    /\ SupIdle
    /\ RetryIdle
    /\ ToolsIdle
    /\ HandlersIdle
    /\ PathsInit

NextHandlers == HandlerCall \/ Upstream \/ HandlerReturn \/ HandlerDone

\* One caller of the handlers, the upstream answering every call.
SpecHandlers == Init /\ [][NextHandlers]_vars

\* One call of convert_path and a second conversion of its result.
SpecPaths == InitPaths /\ [][NextPaths]_vars

(***************************************************************************)
(*                     Properties of the retry executor                    *)
(***************************************************************************)

RetryDone == rpc = "done"

\* The attempts so far that ended in an error.
IsError(r) == r.kind # "value"
AllAttemptsFailedRetryably ==
    \A i \in 1..Len(calls) : IsError(calls[i]) /\ calls[i].kind \in p.retryer_exceptions

\* C8 as stated: at most max_attempts invocations and at least one; when every
\* attempt failed with a retryable error and the deadline is not reached, exactly
\* max_attempts invocations and the last attempt's error is raised.
C8_Original ==
    p.retryer_max_attempts >= 1 =>
        /\ Len(calls) <= p.retryer_max_attempts
        /\ RetryDone => Len(calls) >= 1
        /\ (RetryDone /\ AllAttemptsFailedRetryably /\ remaining > 0) =>
               /\ Len(calls) = p.retryer_max_attempts
               /\ outcome = Raised(calls[Len(calls)])

\* C8 (amended): the callable is invoked at most max_attempts times and at least
\* once; when every attempt failed with a retryable error, the deadline is not
\* reached and no attempt hook invocation raised, it was invoked exactly
\* max_attempts times and the error raised is the last attempt's.
C8_AttemptsBounded ==
    /\ Len(calls) <= max_attempts
    /\ RetryDone => Len(calls) >= 1
    /\ (/\ RetryDone
        /\ AllAttemptsFailedRetryably
        /\ remaining > 0
        /\ ~ (outcome.kind = "raised" /\ outcome.err.src = "hook")) =>
           /\ Len(calls) = max_attempts
           /\ outcome = Raised(calls[Len(calls)])

\* C8 witness: three attempts failed retryably before the deadline, the hook ran
\* between them, and the third error was raised.
C8_Witness ==
    /\ RetryDone
    /\ p.retryer_max_attempts = 3
    /\ p.hook # "none"
    /\ Len(calls) = 3
    /\ Len(hooks) = 2
    /\ AllAttemptsFailedRetryably
    /\ remaining > 0
    /\ outcome = Raised(calls[3])

\* C9: an attempt whose error is not in the retryable set ends the call at once:
\* it is the last invocation of the callable, that same error is what the call
\* raises, and neither the hook nor the sleep ran after it.
C9_NonRetryableRaisedAtOnce ==
    \A i \in 1..Len(calls) :
        (IsError(calls[i]) /\ calls[i].kind \notin p.retryer_exceptions) =>
            /\ i = Len(calls)
            /\ RetryDone
            /\ outcome = Raised(calls[i])
            /\ Len(hooks) < i
            /\ Len(sleeps) < i

\* C9 witness: the second attempt raised a non-retryable error after one retry
\* with a hook, and the call ended with it.
C9_Witness ==
    /\ RetryDone
    /\ Len(calls) = 2
    /\ IsError(calls[2])
    /\ calls[2].kind \notin p.retryer_exceptions
    /\ Len(hooks) = 1
    /\ Len(sleeps) = 1
    /\ outcome = Raised(calls[2])

\* The parameters the executor documents as admissible, unchanged by its clamps.
Admissible ==
    /\ p.retryer_initial_backoff >= MinInitialBackoff
    /\ p.retryer_max_backoff >= MinMaxBackoff
    /\ p.retryer_backoff_multiplier >= MinMultiplier

ClaimedBackoff(k) ==
    Min(p.retryer_max_backoff, p.retryer_initial_backoff * Pow(p.retryer_backoff_multiplier, k))

\* C10 as stated: for admissible parameters the back-off of the k-th retry, the
\* value passed to the hook and used for the sleep, is
\* min(max_backoff, initial_backoff * multiplier^k), k = attempt - 1.
C10_BackoffClosedForm ==
    Admissible =>
        /\ rpc \in {"hook", "sleep"} => backoff = ClaimedBackoff(attempt - 1)
        /\ \A i \in 1..Len(hooks) : hooks[i].backoff = ClaimedBackoff(hooks[i].attempt - 1)

\* C11: with an attempt hook, every failed attempt that is followed by another
\* attempt is followed by exactly one hook invocation, made with that attempt's
\* number and error, completed before the back-off sleep, which ends before the
\* next attempt starts: the hooks and the sleeps never run ahead of the attempts
\* nor lag behind them.
C11_HookBetweenFailureAndSleep ==
    p.hook # "none" =>
        /\ \A i \in 1..Len(hooks) :
              /\ i <= Len(calls)
              /\ hooks[i].attempt = i
              /\ IsError(calls[i]) /\ hooks[i].error = calls[i]
        /\ Len(sleeps) <= Len(hooks)
        /\ rpc = "attempt" => (Len(hooks) = Len(calls) /\ Len(sleeps) = Len(calls))
        /\ rpc = "hook" => (Len(hooks) = Len(calls) - 1 /\ Len(sleeps) = Len(calls) - 1)
        /\ rpc = "sleep" => (Len(hooks) = Len(calls) /\ Len(sleeps) = Len(calls) - 1)
        /\ Len(calls) >= 2 => (Len(hooks) >= Len(calls) - 1 /\ Len(sleeps) >= Len(calls) - 1)

\* The third attempt is about to start: two failures, two hooks, two sleeps.
C11_Witness ==
    /\ p.hook = "async"
    /\ rpc = "attempt" /\ attempt = 3
    /\ Len(calls) = 2 /\ Len(hooks) = 2 /\ Len(sleeps) = 2

\* C12: the step after the hook sleeps exactly min(backoff, remaining), remaining
\* being the time left to the deadline at that moment (after the hook has run),
\* and goes on to the next attempt; when that value is <= 0 it does not sleep and
\* raises the last error.
C12_SleepsMinBackoffRemaining ==
    [][(rpc = "sleep" /\ rpc' # "sleep") =>
          LET s == Min(backoff, deadline - now) IN
          IF s <= 0
          THEN /\ UNCHANGED <<sleeps, now, calls>>
               /\ rpc' = "done"
               /\ outcome' = Raised(last_err)
          ELSE /\ sleeps' = Append(sleeps, s)
               /\ now' = now + s
               /\ rpc' = "attempt"]_vars

\* A hook that took time has run and the sleep after it was cut to what remained.
C12_Witness ==
    /\ p.hook # "none"
    /\ Len(sleeps) >= 1 /\ Len(hooks) >= 1
    /\ sleeps[1] < hooks[1].backoff
    /\ sleeps[1] < p.retryer_timeout - calls[1].at
    /\ sleeps[1] < p.retryer_timeout

\* C13 as stated: when the call ends with a retryable failure handled past the
\* deadline it raises the last error, and it never raises a timeout error of its
\* own making when an attempt has recorded a real error.
C13_NeverTimeoutOverRealError ==
    (RetryDone /\ outcome.kind = "raised") =>
        /\ (outcome.err.kind = "TimeoutError" /\ outcome.err.src = "get") =>
              \A i \in 1..Len(calls) : ~ (IsError(calls[i]) /\ calls[i].src = "func")
        /\ (AllAttemptsFailedRetryably /\ outcome.err.src \in {"func", "wait_for", "get"}) =>
              outcome = Raised(last_err)

StartLabels == {"start_enter", "start_wait", "start_begin", "connect", "init",
                "cleanup", "start_retry", "start_finish"}
StopLabels == {"stop_enter", "stop_wait", "close_session", "close_transport", "stop_finish"}
TransitionLabels == {"start_begin", "connect", "init", "cleanup", "start_retry",
                     "start_finish", "close_session", "close_transport", "stop_finish"}

\* The step in which t's _start, or t's _stop, returns or raises.
StartEnds(t) == pc[t] \in StartLabels /\ pc'[t] \notin StartLabels
StopEnds(t) == pc[t] \in StopLabels /\ pc'[t] \notin StopLabels

\* The coroutines with a lifecycle transition in progress.
Owners == {t \in Tasks : pc[t] \in TransitionLabels}

LegalTransitions ==
    {<<"STOPPED", "STARTING">>, <<"STARTING", "STARTED">>, <<"STARTING", "STOPPED">>,
     <<"STARTED", "STOPPING">>, <<"STOPPING", "STOPPED">>}

\* C2: the state changes only along STOPPED->STARTING, STARTING->STARTED,
\* STARTING->STOPPED, STARTED->STOPPING and STOPPING->STOPPED.
C2_LegalTransitions ==
    [][status' # status => <<status, status'>> \in LegalTransitions]_vars

\* A stop has completed (so the state went round the whole cycle) while another
\* call is under way.
C2_Witness ==
    \E t, u \in Tasks :
        /\ t # u /\ op[u] # "idle"
        /\ pc[t] \notin StopLabels /\ result[t] \in {"stopped", "stopped_close_failed"}
        /\ status = "STOPPED"

\* C3: at most one coroutine is between setting STARTING or STOPPING and setting
\* the stable state that follows, the state is transitional exactly while there
\* is one, and a _start or _stop that finds the state transitional waits (or
\* gives up on its deadline) without changing the state or starting a connect
\* or a tear-down.
C3_OneTransition ==
    /\ [](/\ Cardinality(Owners) <= 1
          /\ Transitional(status) <=> Owners # {})
    /\ [][\A t \in Tasks :
            (Transitional(status) /\ pc[t] \in {"start_enter", "stop_enter"} /\ pc'[t] # pc[t])
                => /\ status' = status
                   /\ pc'[t] \in {"start_wait", "stop_wait", ret[t]}
                   /\ UNCHANGED <<server, transports, sessions>>]_vars

\* One caller is closing the session, another waits to start.
C3_Witness ==
    \E t, u \in Tasks :
        pc[t] = "close_session" /\ pc[u] = "start_wait" /\ status = "STOPPING"

C5_NoOps ==
    [][\A t \in Tasks :
        (/\ \/ pc[t] = "start_enter" /\ status = "STARTED"
            \/ pc[t] = "stop_enter" /\ status = "STOPPED"
         /\ pc'[t] # pc[t])
            => /\ pc'[t] = ret[t]
               /\ result'[t] = "noop"
               /\ UNCHANGED <<status, server, transports, sessions>>]_vars

\* start() was called with the supervisor started and returned without an effect.
C5_Witness ==
    \E t \in Tasks :
        /\ op[t] = "start" /\ pc[t] = "op_end" /\ result[t] = "noop"
        /\ status = "STARTED" /\ server # "None" /\ sessions = 1

TornDown(t) ==
    /\ status' = "STOPPED"
    /\ server' = "None"
    /\ loc'[t] = NoLoc /\ transports' = 0 /\ sessions' = 0
    /\ \A u \in Tasks : pc'[u] \notin {"start_wait", "stop_wait"}

\* C7 as stated: whenever start fails, it has closed what it opened, the session
\* field is empty, the state is STOPPED and the waiters are woken.
C7_Original ==
    [][\A t \in Tasks :
        (StartEnds(t) /\ result'[t] \in Raises) => TornDown(t)]_vars

\* C7, amended: a start that fails after it set STARTING (every connect attempt
\* failed, or its deadline expired) has closed what it opened, leaves the session
\* field empty and the state STOPPED, wakes the waiters and raises; a start whose
\* deadline expires while it waits for another caller's transition raises a
\* timeout and changes nothing.
C7_FailedStartTearsDown ==
    [][\A t \in Tasks :
        (StartEnds(t) /\ result'[t] \in Raises) =>
            IF pc[t] \in TransitionLabels
            THEN TornDown(t) /\ result'[t] \in {"StartError", "TimeoutError"}
            ELSE /\ Transitional(status) /\ late[t] /\ result'[t] = "TimeoutError"
                 /\ UNCHANGED <<status, server, transports, sessions>>]_vars

\* A start has failed after its connect attempts and has woken a waiter.
C7_Witness ==
    \E t, u \in Tasks :
        /\ t # u /\ running = t
        /\ pc[t] \notin StartLabels /\ result[t] = "StartError"
        /\ pc[u] \in {"start_enter", "stop_enter"}
        /\ status = "STOPPED" /\ server = "None" /\ transports = 0 /\ sessions = 0

(*------------------------ RPC error handling -----------------------------*)

\* The errors the text calls timeouts: a transport-level timeout, a tool error
\* of code 408.
TimeoutErrors == {"TimeoutError", "ToolError408"}

\* The executor runs the attempt hook for the failed attempt of t in this step
\* (utils.py:292-307): attempts and time remain.
HookRuns(t) ==
    /\ pc[t] = "rpc_failed" /\ pc'[t] # "rpc_failed"
    /\ rpcTries[t] < SupMaxAttempts /\ ~late[t]

\* C15: when the failed attempt's error is a timeout (transport-level or code
\* 408) the attempt hook stops nothing and starts nothing, and the executor goes
\* on to its sleep; for every other error the hook enters restart (stop, then
\* start) under the call's deadline; a restart is never in progress for a timeout.
C15_TimeoutsNeverRestart ==
    /\ [](\A t \in Tasks :
            ret[t] \in {"hook_mid", "hook_end"} =>
                /\ rpcErr[t] \notin TimeoutErrors
                /\ InWaitFor(t))
    /\ [][\A t \in Tasks :
            HookRuns(t) =>
                IF rpcErr[t] \in TimeoutErrors
                THEN /\ pc'[t] = "rpc_sleep"
                     /\ UNCHANGED <<status, server, transports, sessions>>
                ELSE /\ pc'[t] = "stop_enter"
                     /\ ret'[t] = "hook_mid"]_vars

\* The hook has run for a code-408 failure of a call_tool attempt and left the
\* started supervisor alone.
C15_Witness ==
    \E t \in Tasks :
        /\ op[t] = "call_tool" /\ pc[t] = "rpc_sleep" /\ ~late[t]
        /\ rpcErr[t] = "ToolError408" /\ rpcTries[t] < SupMaxAttempts
        /\ status = "STARTED" /\ server # "None"

\* The errors of an attempt whose upstream invocation was cut at the deadline:
\* by the handler's own wait_for (lines 409-412, 491-494) or by the executor's
\* (utils.py:280).
CutAtDeadline == {"ToolError408"} \cup AfterCancel

\* C16: an attempt of list_tools or call_tool whose upstream invocation is still
\* blocked when the deadline has passed ends with an error of code 408, and so
\* does the call; no hook restart is in progress for such an error; and every
\* list_tools or call_tool starts by ensuring STARTED.
C16_TimeoutPath408 ==
    /\ [](\A t \in Tasks :
            /\ (ret[t] \in {"hook_mid", "hook_end"} => rpcErr[t] \notin CutAtDeadline)
            /\ (pc[t] = "op_end" /\ late[t] /\ result[t] \in CutAtDeadline
                    => Code(result[t]) = 408))
    /\ [][\A t \in Tasks :
            /\ (pc[t] = "rpc_wait" /\ late[t] /\ rpcErr'[t] # rpcErr[t]
                    /\ rpcErr'[t] \in CutAtDeadline
                    => Code(rpcErr'[t]) = 408)
            /\ (pc[t] = "idle" /\ op'[t] \in {"list_tools", "call_tool"}
                    => pc'[t] = "rpc_begin")]_vars

\* The call of t is about to raise to its caller after its last allowed attempt
\* failed (utils.py:292-294).
ExhaustedRaises(t) ==
    /\ op[t] \in {"list_tools", "call_tool"} /\ pc[t] = "op_end"
    /\ rpcTries[t] >= SupMaxAttempts /\ result[t] \in Raises

\* C17: when list_tools or call_tool raises because its retries are exhausted,
\* the supervisor is STOPPED with an empty session field at the moment the error
\* reaches the caller, whatever the attempts failed with.
C17_ExhaustedStops ==
    \A t \in Tasks :
        ExhaustedRaises(t) => status = "STOPPED" /\ server = "None"

(*--------------------------- tool dispatcher -----------------------------*)

\* C18: list_tools returns exactly the tools of the upstream catalogue whose
\* name is in the allow-list, sorted by name ascending, whatever the catalogue,
\* also when nothing had to be discarded.
C18_ListFilteredSorted ==
    tcall.kind = "list_tools" /\ tpc = "done" =>
        /\ tresult.kind = "tools"
        /\ tresult.tools = SortByName(SelectSeq(catalogue, Supported))

\* C19: a tool whose name is not in the allow-list is never in what list_tools
\* returns and is never invoked on the upstream session by call_tool.
C19_AllowListBothDirections ==
    /\ tcall.kind = "list_tools" /\ tpc = "done" =>
        \A i \in DOMAIN tresult.tools : tresult.tools[i] \in supported_tools
    /\ \A i \in DOMAIN invoked : invoked[i] \in supported_tools

\* C20: a call_tool of a tool with a specialised handler whose arguments lack a
\* required one ends by raising an error of code 400, and the upstream tool has
\* not been invoked during the call.
C20_MissingArgument400 ==
    tcall.kind = "call_tool" /\ tpc = "done" /\ MissingArgument =>
        /\ tresult = [kind |-> "raised", error |-> "ToolError400"]
        /\ invoked = <<>>

(*--------------------------- per-tool handlers ---------------------------*)

\* C21: a handler returns a response that differs from the upstream's only when
\* the tool has a handler, isError is false, the content is not empty and the
\* client's and the server's styles differ; when isError is true, the content
\* is empty or the styles are equal it returns the upstream's response as it is.
C21_ResponseRewrittenOnlyOnSuccess ==
    hpc = "returned" =>
        LET eligible == /\ ~ response.isError
                        /\ response.content # <<>>
                        /\ hcall.client_path_type # hcall.server_path_type
        IN  /\ returned # response => eligible /\ hcall.tool \in tool_handlers
            /\ ~ eligible => returned = response

\* The upstream answered isError with a Windows path in its content to a
\* handler that rewrites responses from windows to wsl, and the handler has
\* returned that response.
C21_Witness ==
    /\ hpc = "returned"
    /\ hcall.tool = "get_file_problems"
    /\ hcall.server_path_type = "windows" /\ hcall.client_path_type = "wsl"
    /\ response.isError /\ response.content = <<<<"D", ":", "\\", "t">>>>
    /\ returned = response

\* C22: when the client's style equals the server's, or the tool has no handler
\* and goes through _do_call_tool, the arguments passed to the upstream are the
\* caller's, with no path rewritten.
C22_ArgumentsForwardedUnchanged ==
    hpc # "idle" =>
        (hcall.client_path_type = hcall.server_path_type \/ hcall.tool \notin tool_handlers
            => forwarded = hcall.arguments)

\* A tool without handler has been called by a wsl client of a windows server
\* with a WSL path in its arguments, and the arguments went upstream as they
\* came.
C22_Witness ==
    /\ hpc = "upstream"
    /\ hcall.tool = "get_project_modules"
    /\ hcall.client_path_type = "wsl" /\ hcall.server_path_type = "windows"
    /\ hcall.arguments["filePath"] = <<"/", "m", "n", "t", "/", "d", "/", "t">>
    /\ forwarded = hcall.arguments


(***************************************************************************)
(*                 PROPERTIES OF THE PATH TRANSLATOR                        *)
(***************************************************************************)

\* The drive of the canonical path of the target style: lowercased for wsl and
\* windows_git_bash, kept for windows.
TargetDrive(to, drive) == IF to = "windows" THEN drive ELSE lower(drive)

\* convert_path has mapped the canonical path of from_type, of every drive and
\* tail it is made of, to the canonical path of to_type.
MapsCanonical(tails) ==
    \A d \in Drives, t \in tails :
        /\ ppc = "converted"
        /\ from_type \in Styles /\ to_type \in Styles
        /\ from_type # "windows" => d \in LowerDrives
        /\ path = Canonical(from_type, d, t)
        => converted = Canonical(to_type, TargetDrive(to_type, d), t)

\* C23 as stated: for every drive and every tail, convert_path maps the
\* canonical drive path of from_style to the canonical drive path of to_style
\* with the same tail.
C23_Original == MapsCanonical(Tails)

\* The tails normalize_path leaves alone.
NormalTails == {t \in Tails : normalize_path(t) = t}

\* C23: for every drive and every tail that is already normalized (no
\* backslash, no doubled slash, no outer blank), convert_path maps the canonical
\* drive path of from_style to the canonical drive path of to_style with the
\* same tail, the drive lowercased for wsl and windows_git_bash targets and
\* kept for windows, unless the path is a windows_git_bash path that
\* detect_path_type takes for a wsl path (drive mnt).
C23_CanonicalMapping ==
    (from_type = "windows_git_bash" => detect_path_type(path) # "wsl")
        => MapsCanonical(NormalTails)

C23_Witness ==
    /\ ppc = "converted"
    /\ from_type = "windows" /\ to_type = "wsl"
    /\ path = <<"D", ":", "/", "t", "/", "x">>
    /\ converted = <<"/", "m", "n", "t", "/", "d", "/", "t", "/", "x">>


\* The drives of one letter.
DriveLetters == {d \in Drives : Len(d) = 1}

\* C24: for every pair of styles, every drive letter and every suffix,
\* converting the canonical path of from_type to to_type and the result back to
\* from_type yields the original path up to normalization (normalize_path) and
\* lower-casing of the drive.
C24_RoundTrip ==
    \A d \in DriveLetters, t \in Tails :
        /\ ppc = "back"
        /\ from_type \in Styles /\ to_type \in Styles
        /\ from_type # "windows" => d \in LowerDrives
        /\ path = Canonical(from_type, d, t)
        => normalize_path(again) \in {normalize_path(Canonical(from_type, d, t)),
                                      normalize_path(Canonical(from_type, lower(d), t))}

C24_Witness ==
    /\ ppc = "back"
    /\ from_type = "windows" /\ to_type = "wsl"
    /\ path = <<"D", ":", "/", "t", "/", "/", "x">>
    /\ converted = <<"/", "m", "n", "t", "/", "d", "/", "t", "/", "x">>
    /\ again = <<"d", ":", "/", "t", "/", "x">>


\* The path was converted from its declared style and from the style detected
\* in it, with the same result.
DetectedWins ==
    /\ ppc = "detected"
    /\ from_type \in Styles /\ to_type \in Styles
    /\ detect_path_type(path) # from_type
    => converted = again

\* C25 as stated: for every path and all styles from and to, if
\* detect_path_type(p) is a style d other than from, convert_path(p, from, to)
\* equals convert_path(p, d, to).
C25_Original == DetectedWins

\* C25: for every path and all styles from and to that differ, if
\* detect_path_type(p) is a style d other than from, convert_path(p, from, to)
\* equals convert_path(p, d, to).
C25_DetectionDominance == from_type # to_type => DetectedWins

C25_Witness ==
    /\ ppc = "detected"
    /\ from_type = "windows_git_bash" /\ to_type = "windows"
    /\ path = <<"/", "m", "n", "t", "/", "d", "/", "t">>
    /\ converted = <<"d", ":", "/", "t">>
    /\ again = converted


\* The style convert_path parses the path in: the detected one, else the
\* declared one (lines 233-241).
EffectiveFrom == IF detect_path_type(path) # "" THEN detect_path_type(path) ELSE from_type

\* The conversion is impossible: the path has no drive, its tail starts with
\* '/', and the target is windows (lines 194-200).
Impossible ==
    /\ to_type = "windows"
    /\ EffectiveFrom \in Styles
    /\ LET dp == detect_drive_and_path(normalize_path(path), EffectiveFrom)
       IN  dp.drive = <<>> /\ StartsWith(dp.path, <<"/">>)

\* C26 as stated: convert_path returns the input path unchanged whenever
\* from_style or to_style is not one of the three styles or the conversion is
\* impossible.
C26_Original ==
    ppc = "converted" =>
        (from_type \notin Styles \/ to_type \notin Styles \/ Impossible => converted = path)

\* C26: convert_path returns a path, and it is the input path unchanged
\* whenever to_style is not one of the three styles, or from_style is not and
\* no style other than to_style is detected in the path, or the conversion is
\* impossible (no drive and a tail starting with '/' when converting to
\* windows).
C26_ReturnsInput ==
    ppc = "converted" =>
        /\ converted \in Seq(Letters \cup {"/", "\\", ":", " "})
        /\ \/ to_type \notin Styles
           \/ from_type \notin Styles /\ detect_path_type(path) \in {"", to_type}
           \/ Impossible
           => converted = path

C26_Witness ==
    /\ ppc = "converted"
    /\ from_type = "wsl" /\ to_type = "windows"
    /\ path = <<"/", "t", "/", "/", "x">>
    /\ Impossible
    /\ converted = path


\* C27: for every path p and style arguments a and b, converting the result of
\* convert_path(p, a, b) from b to b returns it unchanged:
\* convert_path(convert_path(p, a, b), b, b) = convert_path(p, a, b).
C27_Idempotent == ppc = "again" => again = converted

C27_Witness ==
    /\ ppc = "again"
    /\ from_type = "wsl" /\ to_type = "windows"
    /\ path = <<"/", "m", "n", "t", "/", "d", "/", "t", "\\", "x">>
    /\ converted = <<"d", ":", "/", "t", "/", "x">>
    /\ again = converted


(***************************************************************************)
(*                    PROPERTIES OF utils.execute                          *)
(***************************************************************************)

ReadsSession(t) ==
    /\ pc[t] = "rpc_attempt"
    /\ pc'[t] # "rpc_attempt"
    /\ ~ late[t]

\* C29: no RPC attempt dereferences the session handle while the state is
\* STOPPED, STARTING or STOPPING or while the session field is empty: every
\* attempt that reads self.server.session does so with the state STARTED and
\* the field set.
C29_SessionReadOnlyWhileStarted ==
    [][\A t \in Tasks : ReadsSession(t) => status = "STARTED" /\ server # "None"]_vars


\* Task t is inside _restart (lines 235-246): called by the attempt hook, or by
\* restart().
Restarting(t) ==
    \/ ret[t] \in {"hook_mid", "hook_end", "restart_mid"}
    \/ pc[t] \in {"hook_mid", "restart_mid"}
    \/ op[t] = "restart" /\ pc[t] \notin {"idle", "op_end"}

\* Task t is inside the _start of its _restart.
RestartStarting(t) ==
    /\ Restarting(t)
    /\ pc[t] \in {"start_enter", "start_wait", "start_begin", "connect", "init", "cleanup",
                  "start_retry", "start_finish"}

\* The _stop or the _start of t's _restart has changed the status and the
\* _restart is not over: t is closing the pair, is between a _stop that stopped
\* the supervisor and its _start, or is starting it.
RestartInEffect(t) ==
    /\ Restarting(t)
    /\ \/ pc[t] \in {"close_session", "close_transport", "stop_finish"}
       \/ pc[t] \in {"hook_mid", "restart_mid"}
            /\ result[t] \in {"stopped", "stopped_close_failed"}
       \/ pc[t] \in {"start_begin", "connect", "init", "cleanup", "start_retry", "start_finish"}

\* Task t takes this step (a notify_all moves the waiters, which take none).
Steps(t) == pc'[t] # pc[t] /\ ~ Waiting(t)

\* C30: restarts are serialized. The _start of a _restart begins only when its
\* _stop has returned, and while one _restart is in effect (its _stop or its
\* _start has changed the state and it has neither completed nor failed), no
\* step of another _restart changes the state or the session field.
C30_RestartsSerialized ==
    [][\A t \in Tasks :
        /\ RestartStarting(t)' /\ ~ RestartStarting(t)
            => pc[t] \in {"hook_mid", "restart_mid"} /\ result[t] \notin Raises
        /\ \A u \in Tasks \ {t} :
            RestartInEffect(u) /\ Restarting(t) /\ Steps(t)
                => status' = status /\ server' = server]_vars

\* Two restarts under way: one is starting the supervisor it stopped, the
\* other waits in its _stop.
C30_Witness ==
    \E t, u \in Tasks :
        /\ t # u
        /\ ret[t] = "hook_end" /\ pc[t] = "connect" /\ status = "STARTING"
        /\ ret[u] = "hook_mid" /\ pc[u] = "stop_wait"


(***************************************************************************)
(*               PROPERTIES OF THE HOOK'S RESTART AND OF _stop             *)
(***************************************************************************)

\* The _restart of t's hook has failed: its _start raised, or its _stop was
\* cancelled or left no time to start (lines 240-246).
HookRestartFailed(t) ==
    \/ pc[t] = "hook_end" /\ result[t] \in Raises
    \/ pc[t] = "hook_mid" /\ (result[t] = "CancelledError" \/ late[t])

\* C31: a failed restart of the attempt hook is swallowed by the hook, and the
\* executor goes on: from the failed restart task t goes to the executor's
\* back-off with its last error kept, from there to the sleep unless the
\* deadline has passed, and from the sleep to the next attempt.
C31_FailedRestartSwallowed ==
    [][\A t \in Tasks :
        /\ HookRestartFailed(t) /\ pc'[t] # pc[t]
            => pc'[t] = "rpc_sleep" /\ result'[t] = "none" /\ rpcErr'[t] = rpcErr[t]
        /\ pc[t] = "rpc_sleep" /\ pc'[t] # pc[t] /\ ~ late[t]
            => pc'[t] = "rpc_sleeping"
        /\ pc[t] = "rpc_sleeping" /\ pc'[t] # pc[t]
            => pc'[t] = "rpc_attempt" /\ rpcTries'[t] = rpcTries[t] + 1]_vars

\* The hook's restart has failed in its _start with attempts and time left.
C31_Witness ==
    \E t \in Tasks :
        /\ pc[t] = "hook_end" /\ result[t] = "StartError"
        /\ ~ late[t] /\ rpcTries[t] < SupMaxAttempts
        /\ status = "STOPPED"


\* C32: during a stop the session is closed before the transport context, the
\* close of the transport context follows the close of the session however
\* that one ended, and _stop then returns without raising, the state STOPPED.
C32_SessionThenTransport ==
    [][\A t \in Tasks :
        /\ pc'[t] = "close_transport" /\ pc[t] # "close_transport"
            => pc[t] = "close_session" /\ loc[t].transport_context = "open"
        /\ pc[t] = "close_session" /\ pc'[t] # pc[t]
            => pc'[t] = "close_transport" /\ loc'[t].session \in CloseOutcomes
        /\ pc[t] = "close_transport" /\ pc'[t] # pc[t]
            => pc'[t] = "stop_finish" /\ loc[t].session \in CloseOutcomes
        /\ pc[t] = "stop_finish" /\ pc'[t] # pc[t]
            => /\ result'[t] \notin Raises
               /\ status' = "STOPPED"
               /\ pc'[t] = ret[t]]_vars

\* The close of the session has timed out and the transport context is being
\* closed.
C32_Witness ==
    \E t \in Tasks :
        /\ pc[t] = "close_transport"
        /\ loc[t].session = "close_timeout"
        /\ loc[t].transport_context = "open"
        /\ status = "STOPPING"


(***************************************************************************)
(*                 PROPERTIES OF A FAILED RESPONSE REWRITE                 *)
(***************************************************************************)

\* The handler got to rewrite the response and a text block of it is no JSON.
RewriteFails ==
    /\ RewritesResponse(hcall.tool)
    /\ hcall.client_path_type # hcall.server_path_type
    /\ ~ response.isError
    /\ FirstNotJson(response.content) # 0

\* C33: for every tool with a response rewriter, when the rewriting of the
\* response fails the handler does not raise: it returns the upstream's
\* response as it came.
C33_RewriteFailureReturnsOriginal ==
    hpc = "returned" /\ RewriteFails => returned = response

(***************************************************************************)
(* PROPERTIES OF THE DEADLINE OF list_tools AND call_tool                  *)
(***************************************************************************)

\* The positions at which a coroutine is suspended in an await with a time budget:
\* the upstream RPC, the condition variable's wait of _start and _stop, the
\* connect and initialize of _do_start, the closes of _do_stop, the back-off sleep.
BlockingSteps ==
    {"rpc_wait", "start_wait", "stop_wait", "connect", "init", "cleanup",
     "close_session", "close_transport", "rpc_sleeping"}

\* C34: deadline propagation.  Inside a list_tools or call_tool every blocking step
\* is given a budget no larger than the time remaining to the call's deadline:
\* once the deadline has passed no blocking step is entered.
C34_BudgetWithinDeadline ==
    [][\A t \in Tasks :
        op[t] \in {"list_tools", "call_tool"} /\ late[t] /\ pc'[t] # pc[t]
            => pc'[t] \notin BlockingSteps]_vars

(***************************************************************************)
(* LIVENESS OF THE SUPERVISOR                                              *)
(***************************************************************************)

\* C35: transitional states are transient.  STARTING is followed by STARTED or
\* STOPPED, and STOPPING by STOPPED with self.server cleared, whether the upstream
\* connects and closes succeed, fail or time out.
C35_TransitionalTransient ==
    /\ (status = "STARTING") ~> (status \in {"STARTED", "STOPPED"})
    /\ (status = "STOPPING") ~> (status = "STOPPED" /\ server = "None")

\* A close of the session has timed out and the close of the transport has failed
\* in a stop that is still STOPPING.
C35_Witness ==
    \E t \in Tasks :
        /\ status = "STOPPING"
        /\ pc[t] = "stop_finish"
        /\ loc[t].session = "close_timeout"
        /\ loc[t].transport_context = "close_failed"

\* C36: no lost wake-up.  A coroutine waiting in _start or _stop for a transitional
\* state to settle leaves its wait, also when no deadline ever passes.
C36_WaitersWoken ==
    \A t \in Tasks : Waiting(t) ~> ~ Waiting(t)

\* Two coroutines: one waits in _stop without a deadline that has passed while the
\* other is inside a start.
C36_Witness ==
    \E t, u \in Tasks :
        /\ pc[t] = "stop_wait" /\ ~ late[t] /\ ~ OwnStopDeadline(t)
        /\ status = "STARTING" /\ pc[u] = "connect"

(***************************************************************************)
(* PROPERTIES OF A REJECTED call_tool                                      *)
(***************************************************************************)

\* C37: a call_tool rejected for a missing required argument is not retried and
\* leaves the supervisor alone: the handler runs once and the hook restarts
\* nothing because of the rejection.
C37_RejectionNotRetried ==
    tcall.kind = "call_tool" /\ MissingArgument =>
        /\ tattempt <= 1
        /\ restarts = 0

(***************************************************************************)
(* PROPERTIES OF A RETRIED REQUEST REWRITE                                 *)
(***************************************************************************)

\* C38: the client-to-server rewrite applied to an already rewritten path changes
\* nothing: convert_path(convert_path(p, c, s), c, s) = convert_path(p, c, s) for
\* all paths p and styles c # s, so a retried handler forwards the arguments of
\* its first attempt.
C38_RewriteRepeatable ==
    ppc = "repeated" /\ from_type \in Styles /\ to_type \in Styles /\ from_type # to_type
        => again = converted

(***************************************************************************)
(* PROPERTIES OF THE ATTEMPT HOOK'S INVOCATIONS                            *)
(***************************************************************************)

\* C39: the attempt hook is invoked only between attempts.  It is entered after a
\* failed attempt with a retryable error that is not the last one allowed, and
\* before the deadline; it never follows a successful attempt, a non-retryable
\* error or the max_attempts-th failure.  So it runs at most max_attempts - 1
\* times, the i-th time with attempt index i, the error of attempt i and the one
\* absolute deadline of the call.
C39_HookOnlyBetweenAttempts ==
    /\ rpc = "hook" =>
        /\ remaining > 0
        /\ attempt < max_attempts
        /\ Len(calls) = attempt /\ Len(hooks) = attempt - 1
        /\ IsError(calls[attempt]) /\ IsRetryable(calls[attempt])
    /\ Len(hooks) <= max_attempts - 1
    /\ Len(hooks) <= Len(calls)
    /\ \A i \in 1..Len(hooks) :
        /\ hooks[i].attempt = i
        /\ IsError(calls[i]) /\ IsRetryable(calls[i])
        /\ hooks[i].error = calls[i]
        /\ hooks[i].deadline = p.retryer_timeout
    /\ rpc = "done" /\ Len(calls) > 0 =>
        LET last == calls[Len(calls)]
        IN  (~ IsError(last) \/ ~ IsRetryable(last) \/ Len(calls) = max_attempts)
                => Len(hooks) <= Len(calls) - 1

\* Three attempts were allowed and all failed: the hook ran after the first and
\* after the second, not after the third.
C39_Witness ==
    /\ p.hook = "sync" /\ max_attempts = 3
    /\ rpc = "done" /\ outcome.kind = "raised"
    /\ Len(calls) = 3 /\ Len(hooks) = 2
    /\ IsError(calls[3]) /\ IsRetryable(calls[3])

(***************************************************************************)
(* PROPERTIES OF A WAIT THAT RUNS OUT OF TIME                              *)
(***************************************************************************)

\* _start, or _stop, ends while the state it waits for is still transitional: the
\* wait has run out of time, in wait_for or at the test of `remaining`.
StartWaitEnds(t) ==
    /\ pc[t] \in {"start_enter", "start_wait"} /\ Transitional(status)
    /\ pc'[t] \notin StartLabels
StopWaitEnds(t) ==
    /\ pc[t] \in {"stop_enter", "stop_wait"} /\ Transitional(status)
    /\ pc'[t] \notin StopLabels

\* The state, the session field, the upstream connections and every other
\* coroutine are as they were.
NothingDisturbed(t) ==
    /\ UNCHANGED <<status, server, transports, sessions, loc, tries>>
    /\ \A u \in Tasks \ {t} : pc'[u] = pc[u] /\ result'[u] = result[u]

\* The stop's own deadline has not run out: it runs on stop_timeout and is
\* cancelled at the deadline of the call around it.
CancelledByCaller(t) == OwnStopDeadline(t) /\ result'[t] = "CancelledError"

====
